---- MODULE Spec2Model ----
(***************************************************************************)
(* Model of the typed IPC layer of electron-toolkit                         *)
(* (packages/electron-ipc-typesafe/src/create-ipc-handlers.ts and the      *)
(* createIpcSchema wrapper around it).                                     *)
(*                                                                         *)
(* Host side: the handler registry (registeredHandlers, ipcMainInstance)   *)
(* and the Electron IpcMain objects it is attached to.                     *)
(* Client side: the invoke object, the object exposed in the preload       *)
(* script, and the invocations that travel from an IpcRenderer to the      *)
(* IpcMain it is connected to.                                             *)
(***************************************************************************)
EXTENDS Integers, Sequences, FiniteSets, TLC

(***************************************************************************)
(* Bounds of the model.                                                    *)
(***************************************************************************)
\* number of registerHandler calls in one behaviour
MaxRegs == 3
\* number of client-side calls in one behaviour
MaxCalls == 1
\* number of registerHandler calls in one behaviour of the client specification
MaxClientRegs == 1
\* number of registerHandler calls in one behaviour of the schema specification
MaxSchemaRegs == 1
\* number of event subscriptions in one behaviour
MaxSubs == 2
\* number of event emissions in one behaviour
MaxEmits == 2
\* number of times one unsubscribe handle is invoked
MaxHandleCalls == 2
\* number of client-side calls in one behaviour of the in-flight specification
MaxInFlight == 2
\* number of registerHandler calls in one behaviour of the attach specification
MaxAttachRegs == 2
\* number of WindowManager calls in one behaviour
MaxOps == 2
\* number of PortManager calls in one behaviour
MaxPortCalls == 2
\* number of waitForServer calls in one behaviour
MaxWaitCalls == 1
\* the largest timeout of a waitForServer call, in check intervals
MaxIntervals == 2
\* the time after which the clock stops unless a timer is running, in check intervals
MaxTicks == 3
\* number of writeBundle calls in one behaviour
MaxBundles == 4
\* number of zoom calls in one behaviour
MaxZoomCalls == 3

(***************************************************************************)
(* Values.                                                                 *)
(***************************************************************************)
\* absent property / null / undefined
None == "none"
Null == "null"

\* channel names are sequences of characters, so that camelCase is computed
GetUser == <<"g", "e", "t", "-", "u", "s", "e", "r">>
SaveData == <<"s", "a", "v", "e", "-", "d", "a", "t", "a">>

\* Object.keys(handlers): the declared call channels, in declaration order
handlers == <<GetUser, SaveData>>

Channels == {handlers[i] : i \in 1..Len(handlers)}

\* further names a schema may declare: a call channel whose callable name is
\* that of 'get-user', a call channel named as the nested namespace of the
\* exposed object, and an event channel
GetDotUser == <<"g", "e", "t", ".", "u", "s", "e", "r">>
InvokeName == <<"i", "n", "v", "o", "k", "e">>
UserUpdated == <<"u", "s", "e", "r", "-", "u", "p", "d", "a", "t", "e", "d">>

\* every call channel name of the model
ChannelNames == Channels \cup {GetDotUser, InvokeName}

\* config.handlers / config.events: left out, or an object given by its keys
Absent == [defined |-> FALSE, keys |-> <<>>]
Map(keys) == [defined |-> TRUE, keys |-> keys]

HandlerMaps ==
  {Absent, Map(<<>>), Map(<<GetUser>>), Map(handlers), Map(<<GetUser, GetDotUser>>),
   Map(<<InvokeName>>), Map(<<GetUser, InvokeName>>)}

EventMaps == {Absent, Map(<<>>), Map(<<UserUpdated>>)}

\* the configurations createIpcSchema may be called with
Configs == [handlers : HandlerMaps, events : EventMaps]

\* the configuration of the schema the host and client specifications use
FixedConfig == [handlers |-> Map(handlers), events |-> Absent]

\* handler implementations the host code may pass to registerHandler
Handlers == {"h1", "h2"}

\* the IpcMain objects the host code may pass to registerMainHandlers
Dispatchers == {"d1", "d2"}

\* what the host code may pass instead of an IpcMain: nothing, or an object
\* that has no handle / removeHandler methods
Undefined == "undefined"
InvalidHandle == "invalid"
InvalidHandles == {Undefined, InvalidHandle}

\* argument lists of a client call (...data)
Args == {<<"u1", "u2">>}

\* the bridge key of the schema, and the keys the preload script may export under
apiKey == "app"
Keys == {"app"}

(***************************************************************************)
(* camelCase of change-case, on character sequences: the input is split    *)
(* into words at every run of characters that are neither letters nor      *)
(* digits and at every lower-to-upper boundary; the first word is          *)
(* lower-cased, every other word is capitalised.                           *)
(***************************************************************************)
LowerChars == <<"a", "b", "c", "d", "e", "f", "g", "h", "i", "j", "k", "l", "m",
                "n", "o", "p", "q", "r", "s", "t", "u", "v", "w", "x", "y", "z">>
UpperChars == <<"A", "B", "C", "D", "E", "F", "G", "H", "I", "J", "K", "L", "M",
                "N", "O", "P", "Q", "R", "S", "T", "U", "V", "W", "X", "Y", "Z">>
DigitChars == <<"0", "1", "2", "3", "4", "5", "6", "7", "8", "9">>

IsLower(ch) == \E i \in 1..Len(LowerChars) : LowerChars[i] = ch
IsUpper(ch) == \E i \in 1..Len(UpperChars) : UpperChars[i] = ch
IsDigit(ch) == \E i \in 1..Len(DigitChars) : DigitChars[i] = ch

ToUpper(ch) ==
  IF IsLower(ch)
    THEN UpperChars[CHOOSE i \in 1..Len(LowerChars) : LowerChars[i] = ch]
    ELSE ch

ToLower(ch) ==
  IF IsUpper(ch)
    THEN LowerChars[CHOOSE i \in 1..Len(UpperChars) : UpperChars[i] = ch]
    ELSE ch

RECURSIVE SplitWords(_, _, _)
SplitWords(s, cur, acc) ==
  LET flushed == IF cur = <<>> THEN acc ELSE Append(acc, cur)
  IN IF s = <<>> THEN flushed
     ELSE LET ch == Head(s)
          IN IF ~(IsLower(ch) \/ IsUpper(ch) \/ IsDigit(ch))
               THEN SplitWords(Tail(s), <<>>, flushed)
             ELSE IF /\ IsUpper(ch)
                     /\ cur # <<>>
                     /\ (IsLower(cur[Len(cur)]) \/ IsDigit(cur[Len(cur)]))
               THEN SplitWords(Tail(s), <<ch>>, flushed)
             ELSE SplitWords(Tail(s), Append(cur, ch), acc)

LowerWord(w) == [i \in 1..Len(w) |-> ToLower(w[i])]

CapitalWord(w) ==
  [i \in 1..Len(w) |-> IF i = 1 THEN ToUpper(w[1]) ELSE ToLower(w[i])]

RECURSIVE JoinWords(_, _)
JoinWords(ws, first) ==
  IF ws = <<>> THEN <<>>
  ELSE (IF first THEN LowerWord(Head(ws)) ELSE CapitalWord(Head(ws)))
         \o JoinWords(Tail(ws), FALSE)

camelCase(s) == JoinWords(SplitWords(s, <<>>, <<>>), TRUE)

(***************************************************************************)
(* State.                                                                  *)
(***************************************************************************)
VARIABLES
  registeredHandlers, \* the registry object: <<[channel, handler]>> in key insertion order
  ipcMainInstance,    \* the IpcMain recorded by registerMainHandlers, or Null
  bound,              \* per IpcMain, its invoke-handler table: channel -> handler or None
  regs,               \* history: the registerHandler calls made so far, in call order
  attachThrew,        \* history: the last registerMainHandlers call threw
  last,               \* history: the last host-side call and how it ended
  globals,            \* the renderer's global object: key -> object exposed under it, or Null
  calls,              \* the calls made through the invoke object, in call order
  received,           \* per IpcMain, the invoke messages that arrived on it, in arrival order
  config,             \* the configuration createIpcSchema is called with
  schema,             \* the outcome of createIpcSchema(config)
  exposedApi,         \* the object the last exposeInPreload(ipcRenderer) returned
  listeners,          \* per event channel, the subscribed callbacks <<[id, callback]>> in order
  subs,               \* history: the subscribe calls made so far and their handles' invocations
  inbox,              \* the event messages sent to the renderer and not yet arrived
  emitted,            \* the number of event messages sent so far
  fired,              \* history: the callback invocations, in invocation order
  windowRegistry,     \* WindowManager #windowRegistry: window name -> window, or NoWindow
  windows,            \* the BrowserWindow objects constructed so far, in construction order
  ops,                \* the WindowManager calls made so far and where each one stands
  usedPorts,          \* PortManager usedPorts: the allocated ports
  busyPorts,          \* environment: the ports on which a listen fails
  portCalls,          \* the PortManager calls made so far and where each one stands
  now,                \* environment: Date.now(), in milliseconds
  waitCalls,          \* the waitForServer calls made so far and where each one stands
  windowToNameMap,    \* ZoomManager windowToNameMap: window -> name, or NoName
  windowStateManagers,\* ZoomManager windowStateManagers: the names that have a state manager
  zoomDestroyed,      \* the windows for which isDestroyed() is true
  focusedWindow,      \* BrowserWindow.getFocusedWindow(), or NoName
  zoomFactor,         \* per window, webContents.getZoomFactor()
  zoomState,          \* per name, the factor last given to updateZoomFactorState
  zoomLast,           \* history: the last ZoomManager call and what it did
  electronApp,        \* hot-reload plugin: the tracked child, or NoChild
  children,           \* the Electron children spawned so far
  devExited,          \* process.exit was called in the dev process
  bundles,            \* history: the number of writeBundle calls
  nodeEnv             \* process.env.NODE_ENV

clientVars == <<globals, calls, received>>

hostVars == <<registeredHandlers, ipcMainInstance, bound, regs, attachThrew, last>>

schemaVars == <<config, schema, exposedApi>>

eventVars == <<listeners, subs, inbox, emitted, fired>>

ipcVars == <<hostVars, clientVars, schemaVars, eventVars>>

windowVars == <<windowRegistry, windows, ops>>

portVars == <<usedPorts, busyPorts, portCalls>>

waitVars == <<now, waitCalls>>

\* the state of the packages other than the IPC layer
zoomVars == <<windowToNameMap, windowStateManagers, zoomDestroyed, focusedWindow,
              zoomFactor, zoomState, zoomLast>>

hotVars == <<electronApp, children, devExited, bundles, nodeEnv>>

toolVars == <<windowVars, portVars, waitVars, zoomVars, hotVars>>

NoCall == [op |-> "init", id |-> 0, threw |-> FALSE]

(***************************************************************************)
(* A JavaScript object with string keys, kept as the sequence of its       *)
(* entries in insertion order (the order Object.entries enumerates).       *)
(***************************************************************************)
ObjHas(obj, key) == \E i \in 1..Len(obj) : obj[i].channel = key

ObjGet(obj, key) ==
  IF ObjHas(obj, key)
    THEN obj[CHOOSE i \in 1..Len(obj) : obj[i].channel = key].handler
    ELSE None

\* obj[key] = value: an existing key keeps its place, a new key goes last
ObjSet(obj, key, value) ==
  IF ObjHas(obj, key)
    THEN [i \in 1..Len(obj) |->
            IF obj[i].channel = key THEN [channel |-> key, handler |-> value]
                                    ELSE obj[i]]
    ELSE Append(obj, [channel |-> key, handler |-> value])

\* delete obj[key]
ObjDelete(obj, key) == SelectSeq(obj, LAMBDA e : e.channel # key)

(***************************************************************************)
(* Electron's IpcMain, as the registry uses it.  handle(channel, listener) *)
(* throws when the channel already has a handler on that IpcMain;          *)
(* removeHandler(channel) removes whatever handler there is.               *)
(***************************************************************************)
IpcMainHandle(table, channel, handler) ==
  IF table[channel] # None
    THEN [table |-> table, threw |-> TRUE]
    ELSE [table |-> [table EXCEPT ![channel] = handler], threw |-> FALSE]

IpcMainRemoveHandler(table, channel) == [table EXCEPT ![channel] = None]

\* Object.entries(registeredHandlers).forEach(handle): stops at the first throw
RECURSIVE HandleAll(_, _)
HandleAll(entries, table) ==
  IF entries = <<>> THEN [table |-> table, threw |-> FALSE]
  ELSE LET r == IpcMainHandle(table, Head(entries).channel, Head(entries).handler)
       IN IF r.threw THEN r ELSE HandleAll(Tail(entries), r.table)

\* the channels Object.entries(registeredHandlers).forEach passes to handle, in
\* call order: the calls up to and including the first one that throws
RECURSIVE HandleCalls(_, _)
HandleCalls(entries, table) ==
  IF entries = <<>> THEN <<>>
  ELSE LET r == IpcMainHandle(table, Head(entries).channel, Head(entries).handler)
       IN IF r.threw THEN <<Head(entries).channel>>
          ELSE <<Head(entries).channel>> \o HandleCalls(Tail(entries), r.table)

(***************************************************************************)
(* The three host-side operations as functions of the registry state.     *)
(***************************************************************************)
\* a registerHandler that binds a wrapper around the implementation
RegisterHandlerEffect_BindsWrapper(reg, inst, bnd, channel, handler) ==
  LET reg2 == ObjSet(reg, channel, handler)
  IN IF inst # Null
       THEN LET r == IpcMainHandle(bnd[inst], channel, "wrapper")
            IN [registeredHandlers |-> reg2,
                bound |-> [bnd EXCEPT ![inst] = r.table],
                threw |-> r.threw]
       ELSE [registeredHandlers |-> reg2, bound |-> bnd, threw |-> FALSE]

\* registerHandler(channel, handler), up to the return of the cleanup closure
RegisterHandlerEffect(reg, inst, bnd, channel, handler) ==
  LET reg2 == ObjSet(reg, channel, handler)
  IN IF inst \in Dispatchers
       THEN LET r == IpcMainHandle(bnd[inst], channel, handler)
            IN [registeredHandlers |-> reg2,
                bound |-> [bnd EXCEPT ![inst] = r.table],
                threw |-> r.threw]
       ELSE [registeredHandlers |-> reg2, bound |-> bnd,
             threw |-> inst = InvalidHandle]

\* a cleanup that forgets ipcMainInstance.removeHandler
CleanupEffect_KeepsBinding(reg, inst, bnd, channel) ==
  [registeredHandlers |-> ObjDelete(reg, channel), bound |-> bnd, threw |-> FALSE]

\* the cleanup closure returned by registerHandler; it captures channelStr only
CleanupEffect(reg, inst, bnd, channel) ==
  [registeredHandlers |-> ObjDelete(reg, channel),
   bound |-> IF inst \in Dispatchers
               THEN [bnd EXCEPT ![inst] = IpcMainRemoveHandler(@, channel)]
               ELSE bnd,
   threw |-> inst = InvalidHandle]

\* registerMainHandlers(ipcMain)
RegisterMainHandlersEffect(reg, bnd, ipcMain) ==
  IF ipcMain \in Dispatchers
    THEN LET r == HandleAll(reg, bnd[ipcMain])
         IN [ipcMainInstance |-> ipcMain,
             bound |-> [bnd EXCEPT ![ipcMain] = r.table],
             threw |-> r.threw]
    \* ipcMain.handle of the first entry throws a TypeError; no entry, no throw
    ELSE [ipcMainInstance |-> ipcMain, bound |-> bnd, threw |-> reg # <<>>]

(***************************************************************************)
(* Host-side actions.                                                      *)
(***************************************************************************)
HostInit ==
  /\ registeredHandlers = <<>>
  /\ ipcMainInstance = Null
  /\ bound = [d \in Dispatchers |-> [c \in ChannelNames |-> None]]
  /\ regs = <<>>
  /\ attachThrew = FALSE
  /\ last = NoCall

registerHandler(channel, handler) ==
  /\ Len(regs) < MaxRegs
  /\ LET e == RegisterHandlerEffect(registeredHandlers, ipcMainInstance, bound,
                                    channel, handler)
     IN /\ registeredHandlers' = e.registeredHandlers
        /\ bound' = e.bound
        /\ regs' = Append(regs, [channel |-> channel, handler |-> handler,
                                 returned |-> ~e.threw, called |-> FALSE])
        /\ last' = [op |-> "registerHandler", id |-> Len(regs) + 1,
                    threw |-> e.threw]
  /\ UNCHANGED <<ipcMainInstance, attachThrew, clientVars, schemaVars, eventVars, toolVars>>

\* the host code invokes the cleanup closure that registerHandler call id returned
cleanup(id) ==
  /\ id \in 1..Len(regs)
  /\ regs[id].returned
  /\ LET e == CleanupEffect(registeredHandlers, ipcMainInstance, bound,
                            regs[id].channel)
     IN /\ registeredHandlers' = e.registeredHandlers
        /\ bound' = e.bound
        /\ last' = [op |-> "cleanup", id |-> id, threw |-> e.threw]
  /\ regs' = [regs EXCEPT ![id].called = TRUE]
  /\ UNCHANGED <<ipcMainInstance, attachThrew, clientVars, schemaVars, eventVars, toolVars>>

registerMainHandlers(ipcMain) ==
  /\ LET e == RegisterMainHandlersEffect(registeredHandlers, bound, ipcMain)
     IN /\ ipcMainInstance' = e.ipcMainInstance
        /\ bound' = e.bound
        /\ attachThrew' = e.threw
        /\ last' = [op |-> "registerMainHandlers", id |-> 0, threw |-> e.threw]
  /\ UNCHANGED <<registeredHandlers, regs, clientVars, schemaVars, eventVars, toolVars>>

(***************************************************************************)
(* Client side.                                                            *)
(***************************************************************************)
\* an object built by exposeInPreload is known by the IpcMain its ipcRenderer
\* is connected to; its members are ExposedMembers
ConfigError == "IPC with API key not available"
NoHandlerError(channel) == <<"No handler registered for", channel>>
ImplError(handler) == <<"rejected by", handler>>
Ret(handler, arg) == <<"returned by", handler, arg>>

\* getIpcApi(apiKey): the object installed under the key, or Null
getIpcApi(key) == globals[key]

\* camelCase(channel) of every call channel
callableOf == [c \in ChannelNames |-> camelCase(c)]

\* the keys of the objects built by iterating Object.keys(handlers)
CallableNames == {callableOf[handlers[i]] : i \in 1..Len(handlers)}

\* obj[camelCase(channel)] = closure over channel, for each channel in
\* declaration order: a later channel with the same callable name overwrites
CapturedChannel(name) ==
  handlers[CHOOSE i \in 1..Len(handlers) :
             /\ callableOf[handlers[i]] = name
             /\ \A j \in 1..Len(handlers) : callableOf[handlers[j]] = name => j <= i]

\* invokers that send on the callable name instead of the channel name
ExposedMembers_SendsCallable == [name \in CallableNames |-> name]

\* getExposeInPreloadHandlersPart: member name -> channel its invoker sends on
ExposedMembers == [name \in CallableNames |-> CapturedChannel(name)]

\* an invoker that tolerates a missing bridge object and returns undefined
InvokerEffect_NoApiCheck(api, channel, arg) ==
  IF api = Null
    THEN [status |-> "returned", value |-> None, member |-> None,
          wire |-> None, data |-> None, disp |-> Null]
    ELSE [status |-> "sent", value |-> None, member |-> callableOf[channel],
          wire |-> ExposedMembers[callableOf[channel]], data |-> arg,
          disp |-> api]

\* an invoker that forwards its arguments in reverse order
InvokerEffect_ReversesArgs(api, channel, arg) ==
  IF api = Null
    THEN [status |-> "threw", value |-> ConfigError, member |-> None,
          wire |-> None, data |-> None, disp |-> Null]
    ELSE [status |-> "sent", value |-> None, member |-> callableOf[channel],
          wire |-> ExposedMembers[callableOf[channel]],
          data |-> [k \in 1..Len(arg) |-> arg[Len(arg) + 1 - k]],
          disp |-> api]

\* the function getInvokeObject stores under camelCase(channel), called with
\* the argument list arg: it calls api[camelCase(channel)](...data), whose
\* invoker calls ipcRenderer.invoke(wire, ...data)
InvokerEffect(api, channel, arg) ==
  IF api = Null
    THEN [status |-> "threw", value |-> ConfigError, member |-> None,
          wire |-> None, data |-> None, disp |-> Null]
    ELSE [status |-> "sent", value |-> None, member |-> callableOf[channel],
          wire |-> ExposedMembers[callableOf[channel]], data |-> arg,
          disp |-> api]

(***************************************************************************)
(* createIpcSchema and the objects it builds.  An object is the sequence   *)
(* of its properties [key, value] in insertion order; a value is a         *)
(* closure (with the identity id and the channel it captured) or a nested  *)
(* object.                                                                 *)
(***************************************************************************)
Closure(kind, id, channel) ==
  [kind |-> kind, id |-> id, channel |-> channel, members |-> <<>>]

Nested(members) ==
  [kind |-> "object", id |-> 0, channel |-> <<>>, members |-> members]

\* the value of a property the object does not have
Missing == [kind |-> "undefined", id |-> 0, channel |-> <<>>, members |-> <<>>]

PropHas(obj, key) == \E i \in 1..Len(obj) : obj[i].key = key

PropGet(obj, key) ==
  IF PropHas(obj, key)
    THEN obj[CHOOSE i \in 1..Len(obj) : obj[i].key = key].value
    ELSE Missing

\* obj[key] = value: a new key is appended, an existing key keeps its position
PropSet(obj, key, value) ==
  IF PropHas(obj, key)
    THEN [i \in 1..Len(obj) |->
            IF obj[i].key = key THEN [key |-> key, value |-> value] ELSE obj[i]]
    ELSE Append(obj, [key |-> key, value |-> value])

PropKeys(obj) == {obj[i].key : i \in 1..Len(obj)}

\* !m || Object.keys(m).length === 0
IsEmptyMap(m) == ~m.defined \/ Len(m.keys) = 0

NoSchemaError == "At least one of handlers or events must be provided"

\* the property names of the exposed object that are not callable names
InvokeKey == <<"i", "n", "v", "o", "k", "e">>
EventsKey == <<"e", "v", "e", "n", "t", "s">>

\* an invoke object keyed by the channel names themselves
getInvokeObject_RawKeys(hs) ==
  [k \in 1..Len(hs) |-> [key |-> hs[k], value |-> Closure("invoker", k, hs[k])]]

RECURSIVE GetInvokeObjectFrom(_, _, _)
GetInvokeObjectFrom(hs, k, invokeObj) ==
  IF k > Len(hs) THEN invokeObj
  ELSE GetInvokeObjectFrom(hs, k + 1,
         PropSet(invokeObj, callableOf[hs[k]], Closure("invoker", k, hs[k])))

\* getInvokeObject(): one invoker per key of handlers, under camelCase(channel)
getInvokeObject(hs) == GetInvokeObjectFrom(hs, 1, <<>>)

RECURSIVE HandlersPartFrom(_, _, _, _)
HandlersPartFrom(hs, k, api, invokeObj) ==
  IF k > Len(hs) THEN PropSet(api, InvokeKey, Nested(invokeObj))
  ELSE LET invoker == Closure("invoker", k, hs[k])
           name == callableOf[hs[k]]
       IN HandlersPartFrom(hs, k + 1, PropSet(api, name, invoker),
                           PropSet(invokeObj, name, invoker))

\* getExposeInPreloadHandlersPart(ipcRenderer)
getExposeInPreloadHandlersPart(hs) == HandlersPartFrom(hs, 1, <<>>, <<>>)

\* eventsApi.exposeInPreload(ipcRenderer): one subscribe function per event
\* channel, named "on" + the capitalised callable name
EventsExposeInPreload(es) ==
  [k \in 1..Len(es) |->
     [key |-> <<"o", "n">> \o JoinWords(SplitWords(es[k], <<>>, <<>>), FALSE),
      value |-> Closure("subscriber", k, es[k])]]

NotExposed == [exposed |-> FALSE, api |-> <<>>]

\* the exposeInPreload closure of createIpcSchema, called with an ipcRenderer
ExposeInPreloadEffect(cfg) ==
  LET part == IF ~IsEmptyMap(cfg.handlers)
                THEN getExposeInPreloadHandlersPart(cfg.handlers.keys)
                ELSE <<>>
  IN [exposed |-> TRUE,
      api |-> IF ~IsEmptyMap(cfg.events)
                THEN PropSet(part, EventsKey,
                             Nested(EventsExposeInPreload(cfg.events.keys)))
                ELSE part]

NotConstructed == [state |-> "none", error |-> None, members |-> {}, invoke |-> <<>>]

\* a createIpcSchema that only rejects a configuration with both maps left out
CreateIpcSchemaEffect_AcceptsEmptyMaps(cfg) ==
  IF ~cfg.handlers.defined /\ ~cfg.events.defined
    THEN [state |-> "threw", error |-> NoSchemaError, members |-> {}, invoke |-> <<>>]
    ELSE LET hasHandlers == ~IsEmptyMap(cfg.handlers)
             hasEvents == ~IsEmptyMap(cfg.events)
         IN [state |-> "built", error |-> None,
             members |-> {"exposeInPreload", "registerInvokers",
                          "registerMainHandlers", "send", "events"}
                         \cup (IF hasHandlers THEN {"registerHandler", "invoke"}
                               ELSE IF ~hasEvents THEN {"invoke"} ELSE {}),
             invoke |-> IF hasHandlers THEN getInvokeObject(cfg.handlers.keys)
                                       ELSE <<>>]

\* createIpcSchema(config): it throws, or returns the result object, given by
\* its property names and its invoke object
CreateIpcSchemaEffect(cfg) ==
  IF IsEmptyMap(cfg.handlers) /\ IsEmptyMap(cfg.events)
    THEN [state |-> "threw", error |-> NoSchemaError, members |-> {}, invoke |-> <<>>]
    ELSE LET hasHandlers == ~IsEmptyMap(cfg.handlers)
             hasEvents == ~IsEmptyMap(cfg.events)
         IN [state |-> "built", error |-> None,
             members |-> {"exposeInPreload", "registerInvokers",
                          "registerMainHandlers", "send", "events"}
                         \cup (IF hasHandlers THEN {"registerHandler", "invoke"}
                               ELSE IF ~hasEvents THEN {"invoke"} ELSE {}),
             invoke |-> IF hasHandlers THEN getInvokeObject(cfg.handlers.keys)
                                       ELSE <<>>]

\* the application calls createIpcSchema(config)
createIpcSchema ==
  /\ schema.state = "none"
  /\ schema' = CreateIpcSchemaEffect(config)
  /\ UNCHANGED <<config, exposedApi, hostVars, clientVars, eventVars, toolVars>>

\* IpcMain receiving an invoke message: it runs the channel's handler, or
\* rejects when the channel has none
IpcMainInvoke(table, channel) ==
  LET h == IF channel \in DOMAIN table THEN table[channel] ELSE None
  IN IF h = None
       THEN [status |-> "rejected", handler |-> None,
             value |-> NoHandlerError(channel)]
       ELSE [status |-> "running", handler |-> h, value |-> None]

ClientInit ==
  /\ globals = [k \in Keys |-> Null]
  /\ calls = <<>>
  /\ received = [d \in Dispatchers |-> <<>>]

\* the preload script exposes exposeInPreload(ipcRenderer) under a key; the
\* ipcRenderer is connected to IpcMain d
exposeInPreload(key, d) ==
  /\ globals[key] = Null
  /\ globals' = [globals EXCEPT ![key] = d]
  /\ exposedApi' = ExposeInPreloadEffect(config)
  /\ UNCHANGED <<calls, received, hostVars, config, schema, eventVars, toolVars>>

\* renderer code calls invoke[name](arg)
invoke(name, arg) ==
  /\ LET e == InvokerEffect(getIpcApi(apiKey), CapturedChannel(name), arg)
     IN calls' = Append(calls, [callable |-> name, arg |-> arg,
                                status |-> e.status, member |-> e.member,
                                wire |-> e.wire, data |-> e.data,
                                disp |-> e.disp, handler |-> None,
                                value |-> e.value])
  /\ UNCHANGED <<globals, received, hostVars, schemaVars, eventVars, toolVars>>

\* an IpcMain that takes up a message only when no handler is running
CanDispatch_Serialised(i) ==
  /\ calls[i].status = "sent"
  /\ \A j \in 1..Len(calls) : calls[j].status # "running"

\* a layer that sends the message of a rejected call again
CanDispatch_Retries(i) == calls[i].status \in {"sent", "rejected"}

\* IpcMain handles each invoke message as it arrives
CanDispatch(i) == calls[i].status = "sent"

\* the invoke message of call i arrives at the IpcMain it was sent to
ipcMainDispatch(i) ==
  /\ i \in 1..Len(calls)
  /\ CanDispatch(i)
  /\ LET d == calls[i].disp
         e == IpcMainInvoke(bound[d], calls[i].wire)
     IN /\ calls' = [calls EXCEPT ![i].status = e.status,
                                  ![i].handler = e.handler,
                                  ![i].value = e.value]
        /\ received' = [received EXCEPT ![d] =
                          Append(@, [channel |-> calls[i].wire,
                                     arg |-> calls[i].data, call |-> i])]
  /\ UNCHANGED <<globals, hostVars, schemaVars, eventVars, toolVars>>

\* the implementation invoked for call i resolves (ok) or rejects
handlerSettle(i, ok) ==
  /\ i \in 1..Len(calls)
  /\ calls[i].status = "running"
  /\ calls' = [calls EXCEPT
                 ![i].status = IF ok THEN "resolved" ELSE "rejected",
                 ![i].value = IF ok THEN Ret(calls[i].handler, calls[i].data)
                                    ELSE ImplError(calls[i].handler)]
  /\ UNCHANGED <<globals, received, hostVars, schemaVars, eventVars, toolVars>>

(***************************************************************************)
(* The event bus: per event channel an ordered list of subscriptions; a   *)
(* subscribe call appends its callback and returns a handle that removes   *)
(* that entry; an arriving event message invokes the callbacks of its      *)
(* channel in list order, within the one arrival.                          *)
(***************************************************************************)
\* callbacks the renderer code may subscribe
Callbacks == {"cb1", "cb2"}

\* the configuration of the schema the event specification uses
EventsConfig == [handlers |-> Absent, events |-> Map(<<UserUpdated>>)]

EventChannels == {EventsConfig.events.keys[i] : i \in 1..Len(EventsConfig.events.keys)}

\* a subscribe that keeps one current callback per channel
SubscribeEffect_SingleSlot(ls, id, callback) == <<[id |-> id, callback |-> callback]>>

\* subscribe(callback), subscription number id, on the list of its channel
SubscribeEffect(ls, id, callback) == Append(ls, [id |-> id, callback |-> callback])

\* an unsubscribe that removes every entry holding the same callback
UnsubscribeEffect_ByCallback(ls, id) ==
  LET mine == {ls[k].callback : k \in {k \in 1..Len(ls) : ls[k].id = id}}
  IN SelectSeq(ls, LAMBDA e : e.callback \notin mine)

\* the unsubscribe handle of subscription id, on the list of its channel
UnsubscribeEffect(ls, id) == SelectSeq(ls, LAMBDA e : e.id # id)

\* the arrival of message m: the invocations made, in order
FireEffect(ls, m) ==
  [k \in 1..Len(ls) |-> [emit |-> m.n, sub |-> ls[k].id,
                         callback |-> ls[k].callback, args |-> m.args]]

EventsInit ==
  /\ listeners = [ch \in EventChannels |-> <<>>]
  /\ subs = <<>>
  /\ inbox = <<>>
  /\ emitted = 0
  /\ fired = <<>>

\* the subscribe functions of the exposed object: name -> event channel
ExposedSubscribers == PropGet(exposedApi.api, EventsKey).members

\* renderer code calls api.events[name](callback)
subscribe(name, callback) ==
  /\ Len(subs) < MaxSubs
  /\ PropHas(ExposedSubscribers, name)
  /\ LET ch == PropGet(ExposedSubscribers, name).channel
         id == Len(subs) + 1
     IN /\ listeners' = [listeners EXCEPT ![ch] = SubscribeEffect(@, id, callback)]
        /\ subs' = Append(subs, [channel |-> ch, callback |-> callback,
                                 handleCalls |-> 0])
  /\ UNCHANGED <<inbox, emitted, fired, hostVars, clientVars, schemaVars, toolVars>>

\* renderer code invokes the unsubscribe handle subscribe call id returned
unsubscribe(id) ==
  /\ id \in 1..Len(subs)
  /\ subs[id].handleCalls < MaxHandleCalls
  /\ listeners' = [listeners EXCEPT ![subs[id].channel] = UnsubscribeEffect(@, id)]
  /\ subs' = [subs EXCEPT ![id].handleCalls = @ + 1]
  /\ UNCHANGED <<inbox, emitted, fired, hostVars, clientVars, schemaVars, toolVars>>

\* host code calls send[name](window, ...args)
send(ch, args) ==
  /\ emitted < MaxEmits
  /\ emitted' = emitted + 1
  /\ inbox' = Append(inbox, [channel |-> ch, args |-> args, n |-> emitted + 1])
  /\ UNCHANGED <<listeners, subs, fired, hostVars, clientVars, schemaVars, toolVars>>

\* the oldest event message arrives in the renderer
deliver ==
  /\ inbox # <<>>
  /\ fired' = fired \o FireEffect(listeners[Head(inbox).channel], Head(inbox))
  /\ inbox' = Tail(inbox)
  /\ UNCHANGED <<listeners, subs, emitted, hostVars, clientVars, schemaVars, toolVars>>

\* ---------------------------------------------------------------------------
\* electron-window-toolkit: WindowManager

\* the window names used by the calls; "settings" has no configuration
WindowNames == {"main", "settings"}

mainWindowName == "main"

\* Map.get of a name that has no entry; also "no window" in a call record
NoWindow == 0

\* an option key that an options object does not carry
Unset == "unset"

OptionKeys == {"show", "title"}

NoOptions == [k \in OptionKeys |-> Unset]

Opt(k, v) == [NoOptions EXCEPT ![k] = v]

\* initConfig.windows: the configured windows and the options of each entry
windowConfigs ==
  [n \in {"main"} |-> [options |-> Opt("title", "config")]]

\* the defaultWindowOptions given to the constructor
defaultWindowOptions == Opt("title", "default")

\* the options a caller passes to openWindow / createWindow
RuntimeOptions == {NoOptions, Opt("title", "runtime")}

\* base options of createWindow (show: false)
baseOptions == Opt("show", "false")

\* deepmerge of two options objects: a key of b wins over the same key of a
merge(a, b) == [k \in OptionKeys |-> IF b[k] # Unset THEN b[k] ELSE a[k]]

\* the options createWindow passes to the BrowserWindow constructor
mergedOptions(windowName, options) ==
  LET withDefaults == merge(baseOptions, defaultWindowOptions)
  IN merge(withDefaults, options)

\* a freshly constructed BrowserWindow
BrowserWindow(windowName, options) ==
  [name |-> windowName, options |-> options, destroyed |-> FALSE,
   closedEmitted |-> FALSE, shown |-> options["show"] = "true",
   focused |-> FALSE, timer |-> "none", closeRequested |-> FALSE]

\* a getWindow that never finds the registered window
GetWindowEffect_AlwaysMisses(reg, wins, windowName) ==
  [result |-> NoWindow, registry |-> reg]

\* a getWindow that leaves the entry of a destroyed window in the registry
GetWindowEffect_KeepsStale(reg, wins, windowName) ==
  IF reg[windowName] # NoWindow /\ ~wins[reg[windowName]].destroyed
    THEN [result |-> reg[windowName], registry |-> reg]
    ELSE [result |-> NoWindow, registry |-> reg]

\* getWindow: the window it returns and the registry it leaves
GetWindowEffect(reg, wins, windowName) ==
  LET registeredWindow == reg[windowName]
  IN IF registeredWindow # NoWindow /\ ~wins[registeredWindow].destroyed
       THEN [result |-> registeredWindow, registry |-> reg]
     ELSE IF registeredWindow # NoWindow /\ wins[registeredWindow].destroyed
       THEN [result |-> NoWindow, registry |-> [reg EXCEPT ![windowName] = NoWindow]]
     ELSE [result |-> NoWindow, registry |-> reg]

\* win.show(); win.focus() on window w: focus moves to w
ShowAndFocus(wins, w) ==
  [i \in 1..Len(wins) |->
     IF i = w THEN [wins[i] EXCEPT !.shown = TRUE, !.focused = TRUE]
     ELSE [wins[i] EXCEPT !.focused = FALSE]]

\* createWindow up to its first await: the configuration check, the
\* BrowserWindow construction and the registry entry
CreateWindowEffect(reg, wins, windowName, options) ==
  IF windowName \notin DOMAIN windowConfigs
    THEN [threw |-> TRUE, win |-> NoWindow, registry |-> reg, windows |-> wins]
  ELSE LET browserWindow == BrowserWindow(windowName, mergedOptions(windowName, options))
       IN [threw |-> FALSE, win |-> Len(wins) + 1,
           registry |-> [reg EXCEPT ![windowName] = Len(wins) + 1],
           windows |-> Append(wins, browserWindow)]

\* the calls whose continuation is queued as a microtask
AfterGet == {o \in 1..Len(ops) : ops[o].pc = "afterGet"}

\* microtasks run before any timer or window event is delivered
MicrotasksDrained == AfterGet = {}

Op(kind, windowName, options, pc, found, win, status, result) ==
  [kind |-> kind, name |-> windowName, options |-> options, pc |-> pc,
   found |-> found, win |-> win, status |-> status, result |-> result]

\* getWindow(windowName): the whole call, it has no await that yields
getWindow(windowName) ==
  LET g == GetWindowEffect(windowRegistry, windows, windowName)
  IN /\ windowRegistry' = g.registry
     /\ ops' = Append(ops, Op("getWindow", windowName, NoOptions, "done",
                              g.result, NoWindow, "resolved", g.result))
     /\ UNCHANGED <<windows, ipcVars, portVars, waitVars, zoomVars, hotVars>>

\* openWindow(name, options) up to its first await: the getWindow call
openWindow(name, options) ==
  LET g == GetWindowEffect(windowRegistry, windows, name)
  IN /\ windowRegistry' = g.registry
     /\ ops' = Append(ops, Op("openWindow", name, options, "afterGet",
                              g.result, NoWindow, "pending", NoWindow))
     /\ UNCHANGED <<windows, ipcVars, portVars, waitVars, zoomVars, hotVars>>

\* openWindow resumes after `await this.getWindow(name)`: it shows and focuses
\* the window it found, or enters createWindow
openResume(o) ==
  /\ ops[o].pc = "afterGet"
  /\ IF ops[o].found # NoWindow
       THEN /\ windows' = ShowAndFocus(windows, ops[o].found)
            /\ ops' = [ops EXCEPT ![o].pc = "done", ![o].status = "resolved",
                                  ![o].result = ops[o].found]
            /\ UNCHANGED windowRegistry
       ELSE LET c == CreateWindowEffect(windowRegistry, windows, ops[o].name, ops[o].options)
            IN /\ windows' = c.windows
               /\ windowRegistry' = c.registry
               /\ ops' = IF c.threw
                           THEN [ops EXCEPT ![o].pc = "done", ![o].status = "rejected"]
                           ELSE [ops EXCEPT ![o].pc = "loading", ![o].win = c.win]
  /\ UNCHANGED <<ipcVars, portVars, waitVars, zoomVars, hotVars>>

\* createWindow(windowName, options) called directly, up to its first await
createWindow(windowName, options) ==
  LET c == CreateWindowEffect(windowRegistry, windows, windowName, options)
  IN /\ windows' = c.windows
     /\ windowRegistry' = c.registry
     /\ ops' = Append(ops, IF c.threw
                             THEN Op("createWindow", windowName, options, "done",
                                     NoWindow, NoWindow, "rejected", NoWindow)
                             ELSE Op("createWindow", windowName, options, "loading",
                                     NoWindow, c.win, "pending", NoWindow))
     /\ UNCHANGED <<ipcVars, portVars, waitVars, zoomVars, hotVars>>

\* loadURL / loadFile settles: createWindow arms the show timer and returns;
\* an openWindow caller then shows and focuses the window, which throws on a
\* destroyed window
loadDone(o, ok) ==
  /\ ops[o].pc = "loading"
  /\ MicrotasksDrained
  /\ LET w == ops[o].win
         armed == [windows EXCEPT ![w].timer = "armed"]
     IN IF ~ok
          THEN /\ ops' = [ops EXCEPT ![o].pc = "done", ![o].status = "rejected"]
               /\ UNCHANGED windows
        ELSE IF ops[o].kind = "createWindow"
          THEN /\ ops' = [ops EXCEPT ![o].pc = "done", ![o].status = "resolved",
                                     ![o].result = w]
               /\ windows' = armed
        ELSE IF windows[w].destroyed
          THEN /\ ops' = [ops EXCEPT ![o].pc = "done", ![o].status = "rejected"]
               /\ windows' = armed
        ELSE /\ ops' = [ops EXCEPT ![o].pc = "done", ![o].status = "resolved",
                                   ![o].result = w]
             /\ windows' = ShowAndFocus(armed, w)
  /\ UNCHANGED <<windowRegistry, ipcVars, portVars, waitVars, zoomVars, hotVars>>

\* the show timeout or 'ready-to-show' fires: showWindow
showWindow(w) ==
  /\ windows[w].timer = "armed"
  /\ MicrotasksDrained
  /\ windows' = [windows EXCEPT ![w].timer = "fired",
                                ![w].shown = IF windows[w].destroyed THEN @ ELSE TRUE]
  /\ UNCHANGED <<windowRegistry, ops, ipcVars, portVars, waitVars, zoomVars, hotVars>>

\* the window is closed by the user or the system: isDestroyed() turns true
destroy(w) ==
  /\ ~windows[w].destroyed
  /\ MicrotasksDrained
  /\ windows' = [windows EXCEPT ![w].destroyed = TRUE, ![w].shown = FALSE,
                                ![w].focused = FALSE]
  /\ UNCHANGED <<windowRegistry, ops, ipcVars, portVars, waitVars, zoomVars, hotVars>>

\* the 'closed' event of window w is delivered: its handlers delete the
\* registry entry of the window's name and, for a loaded main window, close
\* every other window that is not destroyed
closed(w) ==
  /\ windows[w].destroyed
  /\ ~windows[w].closedEmitted
  /\ MicrotasksDrained
  /\ windowRegistry' = [windowRegistry EXCEPT ![windows[w].name] = NoWindow]
  /\ windows' =
       [i \in 1..Len(windows) |->
          IF i = w THEN [windows[i] EXCEPT !.closedEmitted = TRUE]
          ELSE IF /\ windows[w].name = mainWindowName
                  /\ windows[w].timer # "none"
                  /\ ~windows[i].destroyed
            THEN [windows[i] EXCEPT !.closeRequested = TRUE]
          ELSE windows[i]]
  /\ UNCHANGED <<ops, ipcVars, portVars, waitVars, zoomVars, hotVars>>

WindowInit ==
  /\ windowRegistry = [n \in WindowNames |-> NoWindow]
  /\ windows = <<>>
  /\ ops = <<>>

WindowNext ==
  \/ /\ Len(ops) < MaxOps
     /\ \E n \in WindowNames :
          \/ getWindow(n)
          \/ \E options \in RuntimeOptions : openWindow(n, options)
          \/ \E options \in RuntimeOptions : createWindow(n, options)
  \/ \E o \in 1..Len(ops) : openResume(o)
  \/ \E o \in 1..Len(ops) : \E ok \in BOOLEAN : loadDone(o, ok)
  \/ \E w \in 1..Len(windows) : showWindow(w) \/ destroy(w) \/ closed(w)

\* ---------------------------------------------------------------------------
\* dev-mode: PortManager

\* this.basePort
basePort == 5173

\* this.maxAttempts
maxAttempts == 100

\* the ports startPort .. startPort + maxAttempts - 1 that one call can examine
Window(startPort) == startPort..(startPort + maxAttempts - 1)

\* the sets of ports the environment may hold busy
BusySets == {{}, Window(basePort)}

StartPorts == {basePort, basePort + 1}

\* the range getRandomAvailablePort is called with
RandomRanges == {<<basePort, basePort + 1>>}

ReleasePorts == {basePort}

\* isPortAvailable(port): a listen on the port succeeds
isPortAvailable(port) == port \notin busyPorts

FindError == "Unable to find an available port after " \o ToString(maxAttempts) \o " attempts"

RandomError == "Unable to find a random available port after " \o ToString(maxAttempts) \o " attempts"

PortCall(kind, startPort, range, attempts, currentPort, pc, status, result, error, usedAtCall) ==
  [kind |-> kind, startPort |-> startPort, range |-> range, attempts |-> attempts,
   currentPort |-> currentPort, pc |-> pc, status |-> status, result |-> result,
   error |-> error, usedAtCall |-> usedAtCall]

\* no port: the result of a call that has not returned one
NoPort == 0

RECURSIVE FindAdvance(_, _, _)

\* a loop that examines one candidate more before it gives up
FindAdvance_OneMore(used, currentPort, attempts) ==
  IF attempts > maxAttempts
    THEN [pc |-> "done", currentPort |-> currentPort, attempts |-> attempts]
  ELSE IF currentPort \notin used
    THEN [pc |-> "probing", currentPort |-> currentPort, attempts |-> attempts]
  ELSE FindAdvance(used, currentPort + 1, attempts + 1)

\* a loop that probes allocated ports like any other
FindAdvance_IgnoresUsed(used, currentPort, attempts) ==
  IF attempts >= maxAttempts
    THEN [pc |-> "done", currentPort |-> currentPort, attempts |-> attempts]
    ELSE [pc |-> "probing", currentPort |-> currentPort, attempts |-> attempts]

\* the loop of findAvailablePort from its head up to the next await: allocated
\* ports are skipped; it stops at the port to probe or when attempts run out
FindAdvance(used, currentPort, attempts) ==
  IF attempts >= maxAttempts
    THEN [pc |-> "done", currentPort |-> currentPort, attempts |-> attempts]
  ELSE IF currentPort \notin used
    THEN [pc |-> "probing", currentPort |-> currentPort, attempts |-> attempts]
  ELSE FindAdvance(used, currentPort + 1, attempts + 1)

\* the loop of getRandomAvailablePort from its head up to the next await: each
\* draw of an allocated port costs one attempt
RandomAdvance(used, range, attempts) ==
  LET ports == range[1]..range[2]
      hit == ports \cap used # {}
  IN {[pc |-> "probing", currentPort |-> r, attempts |-> a] :
        r \in ports \ used,
        a \in {b \in attempts..(maxAttempts - 1) : hit \/ b = attempts}}
     \cup (IF attempts >= maxAttempts \/ hit
             THEN {[pc |-> "done", currentPort |-> NoPort, attempts |-> maxAttempts]}
             ELSE {})

\* the call record after the loop reached the point adv
Advanced(c, adv, error) ==
  IF adv.pc = "done"
    THEN [c EXCEPT !.pc = "done", !.status = "rejected", !.error = error,
                   !.currentPort = adv.currentPort, !.attempts = adv.attempts]
    ELSE [c EXCEPT !.pc = "probing", !.currentPort = adv.currentPort,
                   !.attempts = adv.attempts]

NewPortCall(kind, startPort, range) ==
  PortCall(kind, startPort, range, 0, startPort, "loop", "pending", NoPort, "", usedPorts)

\* calls are made one after the other: none is in flight
CanCall_Sequential == \A c \in 1..Len(portCalls) : portCalls[c].pc = "done"

\* findAvailablePort(startPort) up to its first await
findAvailablePort(startPort) ==
  /\ portCalls' = Append(portCalls,
       Advanced(NewPortCall("findAvailablePort", startPort, <<>>),
                FindAdvance(usedPorts, startPort, 0), FindError))
  /\ UNCHANGED <<usedPorts, busyPorts, ipcVars, windowVars, waitVars, zoomVars, hotVars>>

\* getRandomAvailablePort(min, max) up to its first await
getRandomAvailablePort(range) ==
  /\ \E adv \in RandomAdvance(usedPorts, range, 0) :
       portCalls' = Append(portCalls,
         Advanced(NewPortCall("getRandomAvailablePort", NoPort, range), adv, RandomError))
  /\ UNCHANGED <<usedPorts, busyPorts, ipcVars, windowVars, waitVars, zoomVars, hotVars>>

\* isPortAvailable settles for call c: an available port is allocated and
\* returned, otherwise the loop goes on to the next await
probe(c) ==
  /\ portCalls[c].pc = "probing"
  /\ LET call == portCalls[c]
         port == call.currentPort
     IN IF isPortAvailable(port)
          THEN /\ usedPorts' = usedPorts \cup {port}
               /\ portCalls' = [portCalls EXCEPT ![c].pc = "done",
                                  ![c].status = "resolved", ![c].result = port]
        ELSE /\ UNCHANGED usedPorts
             /\ IF call.kind = "findAvailablePort"
                  THEN portCalls' = [portCalls EXCEPT ![c] =
                         Advanced(call, FindAdvance(usedPorts, port + 1, call.attempts + 1),
                                  FindError)]
                  ELSE \E adv \in RandomAdvance(usedPorts, call.range, call.attempts + 1) :
                         portCalls' = [portCalls EXCEPT ![c] = Advanced(call, adv, RandomError)]
  /\ UNCHANGED <<busyPorts, ipcVars, windowVars, waitVars, zoomVars, hotVars>>

\* isPortAvailable settles for call c while another call probes the same
\* port: the listen fails when the server of the other probe still holds the
\* port (it succeeds, as in probe, when that server has closed)
probeCollides(c) ==
  /\ portCalls[c].pc = "probing"
  /\ \E o \in 1..Len(portCalls) :
       /\ o # c
       /\ portCalls[o].pc = "probing"
       /\ portCalls[o].currentPort = portCalls[c].currentPort
  /\ LET call == portCalls[c]
     IN IF call.kind = "findAvailablePort"
          THEN portCalls' = [portCalls EXCEPT ![c] =
                 Advanced(call, FindAdvance(usedPorts, call.currentPort + 1,
                                            call.attempts + 1), FindError)]
          ELSE \E adv \in RandomAdvance(usedPorts, call.range, call.attempts + 1) :
                 portCalls' = [portCalls EXCEPT ![c] = Advanced(call, adv, RandomError)]
  /\ UNCHANGED <<usedPorts, busyPorts, ipcVars, windowVars, waitVars, zoomVars, hotVars>>

\* releasePort(port)
releasePort(port) ==
  /\ usedPorts' = usedPorts \ {port}
  /\ portCalls' = Append(portCalls,
       PortCall("releasePort", port, <<>>, 0, port, "done", "resolved", NoPort, "", usedPorts))
  /\ UNCHANGED <<busyPorts, ipcVars, windowVars, waitVars, zoomVars, hotVars>>

\* another process starts or stops listening, between two calls
osChange(busy) ==
  /\ busy # busyPorts
  /\ CanCall_Sequential
  /\ busyPorts' = busy
  /\ UNCHANGED <<usedPorts, portCalls, ipcVars, windowVars, waitVars, zoomVars, hotVars>>

PortInit ==
  /\ usedPorts = {}
  /\ busyPorts = {}
  /\ portCalls = <<>>

PortNext ==
  \/ /\ Len(portCalls) < MaxPortCalls
     /\ CanCall_Sequential
     /\ \/ \E startPort \in StartPorts : findAvailablePort(startPort)
        \/ \E range \in RandomRanges : getRandomAvailablePort(range)
        \/ \E port \in ReleasePorts : releasePort(port)
  \/ \E c \in 1..Len(portCalls) : probe(c)
  \/ \E busy \in BusySets : osChange(busy)

\* a call may be made while another is awaiting its probe
PortConcurrentNext ==
  \/ /\ Len(portCalls) < MaxPortCalls
     /\ \/ \E startPort \in StartPorts : findAvailablePort(startPort)
        \/ \E range \in RandomRanges : getRandomAvailablePort(range)
        \/ \E port \in ReleasePorts : releasePort(port)
  \/ \E c \in 1..Len(portCalls) : probe(c)
  \/ \E c \in 1..Len(portCalls) : probeCollides(c)
  \/ \E busy \in BusySets : osChange(busy)

\* ---------------------------------------------------------------------------
\* dev-mode: waitForServer

SERVER_CHECK_INTERVAL == 100

Urls == {"http://localhost:5173"}

\* the timeouts the calls are made with, in milliseconds
Timeouts == {k * SERVER_CHECK_INTERVAL : k \in 0..MaxIntervals}

FetchOutcomes == {"ok", "notOk", "rejected"}

TimeoutError(url, timeout) ==
  "Server at " \o url \o " did not become ready within " \o ToString(timeout) \o "ms"

\* a loop head that never gives up
LoopHead_NoTimeout(call, t) == [call EXCEPT !.pc = "fetching"]

\* the loop head of waitForServer at time t: fetch again while the timeout has
\* not elapsed, otherwise throw
LoopHead(call, t) ==
  IF t - call.start < call.timeout
    THEN [call EXCEPT !.pc = "fetching"]
    ELSE [call EXCEPT !.pc = "done", !.status = "rejected",
                      !.error = TimeoutError(call.url, call.timeout)]

\* waitForServer(url, timeout) up to its first await
waitForServer(url, timeout) ==
  /\ waitCalls' = Append(waitCalls,
       LoopHead([url |-> url, timeout |-> timeout, start |-> now, pc |-> "loop",
                 status |-> "pending", error |-> "", since |-> now,
                 lastFetch |-> "none", fetches |-> 0], now))
  /\ UNCHANGED <<now, ipcVars, windowVars, portVars, zoomVars, hotVars>>

\* the fetch of call i settles: an ok response resolves the call, anything
\* else starts the SERVER_CHECK_INTERVAL timer
fetchSettle(i, outcome) ==
  /\ waitCalls[i].pc = "fetching"
  /\ waitCalls' = [waitCalls EXCEPT ![i] =
       IF outcome = "ok"
         THEN [@ EXCEPT !.pc = "done", !.status = "resolved", !.lastFetch = outcome,
                        !.fetches = @ + 1]
         ELSE [@ EXCEPT !.pc = "sleeping", !.since = now, !.lastFetch = outcome,
                        !.fetches = @ + 1]]
  /\ UNCHANGED <<now, ipcVars, windowVars, portVars, zoomVars, hotVars>>

\* the SERVER_CHECK_INTERVAL timer of call i fires: back to the loop head
wake(i) ==
  /\ waitCalls[i].pc = "sleeping"
  /\ now >= waitCalls[i].since + SERVER_CHECK_INTERVAL
  /\ waitCalls' = [waitCalls EXCEPT ![i] = LoopHead(@, now)]
  /\ UNCHANGED <<now, ipcVars, windowVars, portVars, zoomVars, hotVars>>

\* a timer that is set and not yet due
TimerRunning ==
  \E i \in 1..Len(waitCalls) :
    waitCalls[i].pc = "sleeping" /\ now < waitCalls[i].since + SERVER_CHECK_INTERVAL

\* time passes
tick ==
  /\ now < MaxTicks * SERVER_CHECK_INTERVAL \/ TimerRunning
  /\ now' = now + SERVER_CHECK_INTERVAL
  /\ UNCHANGED <<waitCalls, ipcVars, windowVars, portVars, zoomVars, hotVars>>

WaitInit ==
  /\ now = 0
  /\ waitCalls = <<>>

WaitNext ==
  \/ /\ Len(waitCalls) < MaxWaitCalls
     /\ \E url \in Urls : \E timeout \in Timeouts : waitForServer(url, timeout)
  \/ \E i \in 1..Len(waitCalls) : \E outcome \in FetchOutcomes : fetchSettle(i, outcome)
  \/ \E i \in 1..Len(waitCalls) : wake(i)
  \/ tick

\* ---------------------------------------------------------------------------
\* electron-window-toolkit: ZoomManager.  Zoom factors are in hundredths.

ZOOM_STEP == 10

MIN_ZOOM == 25

MAX_ZOOM == 300

DEFAULT_ZOOM == 100

\* the BrowserWindow objects the zoom calls are made on
ZoomWindows == {"w1", "w2"}

\* the names windows are registered under
ZoomNames == {"main", "unknown"}

\* WeakMap.get of a window that was not registered; getFocusedWindow() null
NoName == "none"

\* no zoom factor has been handed to updateZoomFactorState
NoZoomState == 0

\* the factors setWindowZoom is called with
ZoomFactors == {0, DEFAULT_ZOOM, MAX_ZOOM + 2 * ZOOM_STEP}

\* webContents.setZoomFactor throws for a factor that is not greater than 0
SetZoomFactorThrows(factor) == factor <= 0

MinOf(a, b) == IF a <= b THEN a ELSE b

MaxOf(a, b) == IF a >= b THEN a ELSE b

\* setWindowZoom: the factors of the windows and the saved zoom states it
\* leaves, whether it applied the factor and whether it saved it
SetWindowZoomEffect(names, managers, destroyed, factors, states, window, factor) ==
  LET windowName == IF names[window] # NoName THEN names[window] ELSE "unknown"
  IN IF window \in destroyed \/ SetZoomFactorThrows(factor)
       THEN [zoomFactor |-> factors, zoomState |-> states, applied |-> FALSE,
             saved |-> FALSE]
     ELSE [zoomFactor |-> [factors EXCEPT ![window] = factor],
           zoomState |-> IF windowName \in managers
                           THEN [states EXCEPT ![windowName] = factor]
                           ELSE states,
           applied |-> TRUE, saved |-> windowName \in managers]

\* the call made on the focused window, or nothing without a focused window
ZoomCall(op, window, target) ==
  LET e == SetWindowZoomEffect(windowToNameMap, windowStateManagers, zoomDestroyed,
                               zoomFactor, zoomState, window, target)
  IN /\ zoomLast.calls < MaxZoomCalls
     /\ zoomFactor' = e.zoomFactor
     /\ zoomState' = e.zoomState
     /\ zoomLast' = [op |-> op, window |-> window, factor |-> target,
                     applied |-> e.applied, saved |-> e.saved,
                     calls |-> zoomLast.calls + 1]
     /\ UNCHANGED <<windowToNameMap, windowStateManagers, zoomDestroyed, focusedWindow>>

NoZoomCall(op) ==
  /\ zoomLast.calls < MaxZoomCalls
  /\ zoomLast' = [op |-> op, window |-> NoName, factor |-> NoZoomState,
                  applied |-> FALSE, saved |-> FALSE, calls |-> zoomLast.calls + 1]
  /\ UNCHANGED <<windowToNameMap, windowStateManagers, zoomDestroyed, focusedWindow,
                 zoomFactor, zoomState>>

\* registerWindow(window, windowName, stateManager)
registerWindow(window, windowName) ==
  /\ windowToNameMap[window] = NoName
  /\ window \notin zoomDestroyed
  /\ windowToNameMap' = [windowToNameMap EXCEPT ![window] = windowName]
  /\ windowStateManagers' = windowStateManagers \cup {windowName}
  /\ zoomLast' = [op |-> "registerWindow", window |-> window, factor |-> NoZoomState,
                  applied |-> FALSE, saved |-> FALSE, calls |-> zoomLast.calls]
  /\ UNCHANGED <<zoomDestroyed, focusedWindow, zoomFactor, zoomState>>
  /\ UNCHANGED <<ipcVars, windowVars, portVars, waitVars, hotVars>>

\* setWindowZoom(window, zoomFactor)
setWindowZoom(window, factor) ==
  /\ ZoomCall("setWindowZoom", window, factor)
  /\ UNCHANGED <<ipcVars, windowVars, portVars, waitVars, hotVars>>

\* resetZoom()
resetZoom ==
  /\ IF focusedWindow # NoName
       THEN ZoomCall("resetZoom", focusedWindow, DEFAULT_ZOOM)
       ELSE NoZoomCall("resetZoom")
  /\ UNCHANGED <<ipcVars, windowVars, portVars, waitVars, hotVars>>

\* zoomIn()
zoomIn ==
  /\ IF focusedWindow # NoName
       THEN ZoomCall("zoomIn", focusedWindow,
                     MinOf(zoomFactor[focusedWindow] + ZOOM_STEP, MAX_ZOOM))
       ELSE NoZoomCall("zoomIn")
  /\ UNCHANGED <<ipcVars, windowVars, portVars, waitVars, hotVars>>

\* zoomOut()
zoomOut ==
  /\ IF focusedWindow # NoName
       THEN ZoomCall("zoomOut", focusedWindow,
                     MaxOf(zoomFactor[focusedWindow] - ZOOM_STEP, MIN_ZOOM))
       ELSE NoZoomCall("zoomOut")
  /\ UNCHANGED <<ipcVars, windowVars, portVars, waitVars, hotVars>>

\* the user focuses a window that is not destroyed
zoomWindowFocus(window) ==
  /\ window \notin zoomDestroyed
  /\ focusedWindow # window
  /\ focusedWindow' = window
  /\ UNCHANGED <<windowToNameMap, windowStateManagers, zoomDestroyed, zoomFactor,
                 zoomState, zoomLast>>
  /\ UNCHANGED <<ipcVars, windowVars, portVars, waitVars, hotVars>>

\* a window is destroyed; a destroyed window is not focused
zoomWindowDestroy(window) ==
  /\ window \notin zoomDestroyed
  /\ zoomDestroyed' = zoomDestroyed \cup {window}
  /\ focusedWindow' = IF focusedWindow = window THEN NoName ELSE focusedWindow
  /\ UNCHANGED <<windowToNameMap, windowStateManagers, zoomFactor, zoomState, zoomLast>>
  /\ UNCHANGED <<ipcVars, windowVars, portVars, waitVars, hotVars>>

ZoomInit ==
  /\ windowToNameMap = [w \in ZoomWindows |-> NoName]
  /\ windowStateManagers = {}
  /\ zoomDestroyed = {}
  /\ focusedWindow = NoName
  /\ zoomFactor = [w \in ZoomWindows |-> DEFAULT_ZOOM]
  /\ zoomState = [n \in ZoomNames |-> NoZoomState]
  /\ zoomLast = [op |-> "none", window |-> NoName, factor |-> NoZoomState,
                 applied |-> FALSE, saved |-> FALSE, calls |-> 0]

ZoomNext ==
  \/ \E w \in ZoomWindows : \E n \in ZoomNames : registerWindow(w, n)
  \/ \E w \in ZoomWindows : \E f \in ZoomFactors : setWindowZoom(w, f)
  \/ resetZoom
  \/ zoomIn
  \/ zoomOut
  \/ \E w \in ZoomWindows : zoomWindowFocus(w)
  \/ \E w \in ZoomWindows : zoomWindowDestroy(w)

\* ---------------------------------------------------------------------------
\* electron-vite-toolkit: the main-process hot-reload plugin

\* electronApp = null
NoChild == 0

NodeEnvs == {"development", "production"}

\* spawn(electronPath, ...) followed by addListener('exit', process.exit)
Spawned == [exitListener |-> TRUE, killed |-> FALSE, exited |-> FALSE]

\* a writeBundle that kills the previous child with its listener attached
WriteBundleEffect_KeepsListener(env, app, procs) ==
  IF env # "development"
    THEN [electronApp |-> app, children |-> procs]
    ELSE LET stopped == IF app # NoChild
                          THEN [procs EXCEPT ![app].killed = TRUE]
                          ELSE procs
         IN [electronApp |-> Len(procs) + 1, children |-> Append(stopped, Spawned)]

\* writeBundle: the children and the electronApp reference it leaves
WriteBundleEffect(env, app, procs) ==
  IF env # "development"
    THEN [electronApp |-> app, children |-> procs]
    ELSE LET stopped == IF app # NoChild
                          THEN [procs EXCEPT ![app].exitListener = FALSE,
                                             ![app].killed = TRUE]
                          ELSE procs
         IN [electronApp |-> Len(procs) + 1, children |-> Append(stopped, Spawned)]

\* writeBundle()
writeBundle ==
  /\ ~devExited
  /\ bundles < MaxBundles
  /\ bundles' = bundles + 1
  /\ LET e == WriteBundleEffect(nodeEnv, electronApp, children)
     IN /\ electronApp' = e.electronApp
        /\ children' = e.children
  /\ UNCHANGED <<devExited, nodeEnv>>
  /\ UNCHANGED <<ipcVars, windowVars, portVars, waitVars, zoomVars>>

\* child c exits: its 'exit' listeners run, process.exit among them when it
\* is still attached
childExit(c) ==
  /\ ~devExited
  /\ ~children[c].exited
  /\ children' = [children EXCEPT ![c].exited = TRUE]
  /\ devExited' = children[c].exitListener
  /\ UNCHANGED <<electronApp, bundles, nodeEnv>>
  /\ UNCHANGED <<ipcVars, windowVars, portVars, waitVars, zoomVars>>

\* process.env.NODE_ENV is set
setNodeEnv(env) ==
  /\ ~devExited
  /\ env # nodeEnv
  /\ nodeEnv' = env
  /\ UNCHANGED <<electronApp, children, devExited, bundles>>
  /\ UNCHANGED <<ipcVars, windowVars, portVars, waitVars, zoomVars>>

HotInit ==
  /\ electronApp = NoChild
  /\ children = <<>>
  /\ devExited = FALSE
  /\ bundles = 0
  /\ nodeEnv = "development"

HotNext ==
  \/ writeBundle
  \/ \E c \in 1..Len(children) : childExit(c)
  \/ \E env \in NodeEnvs : setNodeEnv(env)

(***************************************************************************)
(* The legacy createIpcBridge: a createIpcSchema built from the channels   *)
(* of the supplied implementations, which it registers at construction.   *)
(***************************************************************************)
\* a value of the handlers object that is not a function
NotAFunction == "notAFunction"

\* the handlers object { keys[i]: impls[i] } of a createIpcBridge configuration
ImplMap(keys, impls) == [defined |-> TRUE, keys |-> keys, impls |-> impls]

NoImpls == [defined |-> FALSE, keys |-> <<>>, impls |-> <<>>]

BridgeHandlerMaps ==
  {NoImpls, ImplMap(<<>>, <<>>), ImplMap(<<GetUser>>, <<"h1">>),
   ImplMap(<<GetUser, SaveData>>, <<"h1", "h2">>),
   ImplMap(<<SaveData, GetUser>>, <<"h1", "h1">>),
   ImplMap(<<GetUser, SaveData>>, <<NotAFunction, "h2">>)}

BridgeConfigs == [handlers : BridgeHandlerMaps, events : EventMaps]

\* the configuration createIpcBridge passes to createIpcSchema: a placeholder
\* schema for every supplied channel, and an empty map passed as undefined
BridgeSchemaConfig(cfg) ==
  [handlers |-> IF ~IsEmptyMap(cfg.handlers) THEN Map(cfg.handlers.keys) ELSE Absent,
   events |-> IF ~IsEmptyMap(cfg.events) THEN cfg.events ELSE Absent]

\* Object.entries(handlers).forEach: schema.registerHandler(channel, handler)
\* for every value that is a function; no dispatcher is attached yet
RECURSIVE AutoRegister(_, _, _, _)
AutoRegister(keys, impls, reg, bnd) ==
  IF keys = <<>> THEN reg
  ELSE AutoRegister(Tail(keys), Tail(impls),
                    IF Head(impls) \in Handlers
                      THEN RegisterHandlerEffect(reg, Null, bnd, Head(keys),
                                                 Head(impls)).registeredHandlers
                      ELSE reg,
                    bnd)

\* a createIpcBridge that leaves the registration to the host code
CreateIpcBridgeEffect_NoAutoRegister(cfg, bnd) ==
  [schema |-> CreateIpcSchemaEffect(BridgeSchemaConfig(cfg)),
   registeredHandlers |-> <<>>]

\* createIpcBridge(config): the object it returns (or the throw of
\* createIpcSchema) and the registry of the schema it built
CreateIpcBridgeEffect(cfg, bnd) ==
  LET hasHandlers == ~IsEmptyMap(cfg.handlers)
      hasEvents == ~IsEmptyMap(cfg.events)
      s == CreateIpcSchemaEffect(BridgeSchemaConfig(cfg))
  IN IF s.state = "threw"
       THEN [schema |-> s, registeredHandlers |-> <<>>]
       ELSE [schema |-> IF ~hasHandlers /\ hasEvents
                          THEN [s EXCEPT !.members = @ \ {"registerHandler", "invoke"},
                                         !.invoke = <<>>]
                          ELSE s,
             registeredHandlers |->
               IF hasHandlers /\ "registerHandler" \in s.members
                 THEN AutoRegister(cfg.handlers.keys, cfg.handlers.impls, <<>>, bnd)
                 ELSE <<>>]

\* the application calls createIpcBridge(config)
createIpcBridge ==
  /\ schema.state = "none"
  /\ LET e == CreateIpcBridgeEffect(config, bound)
     IN /\ schema' = e.schema
        /\ registeredHandlers' = e.registeredHandlers
        /\ last' = [op |-> "createIpcBridge", id |-> 0,
                    threw |-> e.schema.state = "threw"]
  /\ UNCHANGED <<config, exposedApi, ipcMainInstance, bound, regs, attachThrew,
                 clientVars, eventVars, toolVars>>

\* registerMainHandlers of a schema without handlers: () => {}
registerMainHandlersNoop(ipcMain) ==
  /\ schema.state = "built"
  /\ IsEmptyMap(config.handlers)
  /\ last.op # "registerMainHandlers"
  /\ last' = [op |-> "registerMainHandlers", id |-> 0, threw |-> FALSE]
  /\ UNCHANGED <<registeredHandlers, ipcMainInstance, bound, regs, attachThrew,
                 clientVars, schemaVars, eventVars, toolVars>>

\* no tool call has been made
ToolIdle == WindowInit /\ PortInit /\ WaitInit /\ ZoomInit /\ HotInit

vars == <<ipcVars, toolVars>>

\* the schema of the host and client specifications, constructed
SchemaInit ==
  /\ config = FixedConfig
  /\ schema = CreateIpcSchemaEffect(FixedConfig)
  /\ exposedApi = NotExposed

Init == HostInit /\ ClientInit /\ SchemaInit /\ EventsInit /\ ToolIdle

\* the host side on its own
Next ==
  \/ \E c \in Channels, h \in Handlers : registerHandler(c, h)
  \/ \E id \in 1..Len(regs) : cleanup(id)
  \/ \E d \in Dispatchers : registerMainHandlers(d)

Spec == Init /\ [][Next]_vars

\* host and client together, with fewer registrations
ClientNext ==
  \/ \E c \in Channels, h \in Handlers :
       Len(regs) < MaxClientRegs /\ registerHandler(c, h)
  \/ \E id \in 1..Len(regs) : cleanup(id)
  \/ \E d \in Dispatchers : registerMainHandlers(d)
  \/ \E k \in Keys, d \in Dispatchers : exposeInPreload(k, d)
  \/ \E n \in CallableNames, a \in Args : Len(calls) < MaxCalls /\ invoke(n, a)
  \/ \E i \in 1..Len(calls) : ipcMainDispatch(i)
  \/ \E i \in 1..Len(calls), ok \in BOOLEAN : handlerSettle(i, ok)

SpecClient == Init /\ [][ClientNext]_vars

\* schema construction over the configurations, followed by the host-side
\* calls and the preload exposure of the schema that was built
SchemaSpecInit ==
  /\ HostInit
  /\ ClientInit
  /\ config \in Configs
  /\ schema = NotConstructed
  /\ exposedApi = NotExposed
  /\ EventsInit
  /\ ToolIdle

\* the result object has registerHandler and the registry behind it
HasHandlersApi == schema.state = "built" /\ "registerHandler" \in schema.members

DeclaredCalls == {config.handlers.keys[i] : i \in 1..Len(config.handlers.keys)}

SchemaNext ==
  \/ createIpcSchema
  \/ \E c \in DeclaredCalls, h \in Handlers :
       HasHandlersApi /\ Len(regs) < MaxSchemaRegs /\ registerHandler(c, h)
  \/ \E id \in 1..Len(regs) : cleanup(id)
  \/ \E d \in Dispatchers : HasHandlersApi /\ registerMainHandlers(d)
  \/ \E k \in Keys, d \in Dispatchers :
       schema.state = "built" /\ exposeInPreload(k, d)

SpecSchema == SchemaSpecInit /\ [][SchemaNext]_vars

\* the event bus of a schema that declares the event channel 'user-updated'
EventsSpecInit ==
  /\ HostInit
  /\ ClientInit
  /\ config = EventsConfig
  /\ schema = CreateIpcSchemaEffect(EventsConfig)
  /\ exposedApi = NotExposed
  /\ EventsInit
  /\ ToolIdle

EventsNext ==
  \/ \E k \in Keys, d \in Dispatchers : exposeInPreload(k, d)
  \/ \E n \in PropKeys(ExposedSubscribers), cb \in Callbacks : subscribe(n, cb)
  \/ \E id \in 1..Len(subs) : unsubscribe(id)
  \/ \E ch \in EventChannels, a \in Args : send(ch, a)
  \/ deliver

SpecEvents == EventsSpecInit /\ [][EventsNext]_vars

\* argument lists of the calls of the in-flight specification
InFlightArgs == {<<"u1", "u2">>, <<"u3">>}

\* the state after registerHandler('get-user', h1), registerHandler('save-data',
\* h2), registerMainHandlers(d1) and the exposure of the bridge object over an
\* ipcRenderer connected to d1
InFlightInit ==
  LET r1 == RegisterHandlerEffect(<<>>, Null,
              [d \in Dispatchers |-> [c \in ChannelNames |-> None]], GetUser, "h1")
      r2 == RegisterHandlerEffect(r1.registeredHandlers, Null, r1.bound,
                                  SaveData, "h2")
      a == RegisterMainHandlersEffect(r2.registeredHandlers, r2.bound, "d1")
  IN /\ registeredHandlers = r2.registeredHandlers
     /\ ipcMainInstance = a.ipcMainInstance
     /\ bound = a.bound
     /\ regs = <<[channel |-> GetUser, handler |-> "h1", returned |-> ~r1.threw,
                  called |-> FALSE],
                 [channel |-> SaveData, handler |-> "h2", returned |-> ~r2.threw,
                  called |-> FALSE]>>
     /\ attachThrew = a.threw
     /\ last = [op |-> "registerMainHandlers", id |-> 0, threw |-> a.threw]
     /\ globals = [k \in Keys |-> "d1"]
     /\ calls = <<>>
     /\ received = [d \in Dispatchers |-> <<>>]
     /\ config = FixedConfig
     /\ schema = CreateIpcSchemaEffect(FixedConfig)
     /\ exposedApi = ExposeInPreloadEffect(FixedConfig)
     /\ EventsInit
     /\ ToolIdle

InFlightNext ==
  \/ \E n \in CallableNames, a \in InFlightArgs :
       Len(calls) < MaxInFlight /\ invoke(n, a)
  \/ \E i \in 1..Len(calls) : ipcMainDispatch(i)
  \/ \E i \in 1..Len(calls), ok \in BOOLEAN : handlerSettle(i, ok)

SpecInFlight == InFlightInit /\ [][InFlightNext]_vars

\* the host side, with registerMainHandlers also called without a usable IpcMain
AttachNext ==
  \/ \E c \in Channels, h \in Handlers :
       Len(regs) < MaxAttachRegs /\ registerHandler(c, h)
  \/ \E id \in 1..Len(regs) : cleanup(id)
  \/ \E d \in Dispatchers \cup InvalidHandles : registerMainHandlers(d)

SpecAttach == Init /\ [][AttachNext]_vars

\* the host side called with channel names the schema declares and with
\* names it does not declare
UntypedNext ==
  \/ \E c \in ChannelNames, h \in Handlers :
       Len(regs) < MaxAttachRegs /\ registerHandler(c, h)
  \/ \E id \in 1..Len(regs) : cleanup(id)
  \/ \E d \in Dispatchers : registerMainHandlers(d)

SpecUntyped == Init /\ [][UntypedNext]_vars

\* the host side with a single registerMainHandlers call
OneAttachNext ==
  \/ \E c \in Channels, h \in Handlers : registerHandler(c, h)
  \/ \E id \in 1..Len(regs) : cleanup(id)
  \/ \E d \in Dispatchers : ipcMainInstance = Null /\ registerMainHandlers(d)

SpecOneAttach == Init /\ [][OneAttachNext]_vars

\* a legacy bridge: its construction, then the host side of the object it
\* returned, with a single registerMainHandlers call
LegacyInit ==
  /\ HostInit /\ ClientInit /\ EventsInit /\ ToolIdle
  /\ config \in BridgeConfigs
  /\ schema = NotConstructed
  /\ exposedApi = NotExposed

LegacyNext ==
  \/ createIpcBridge
  \/ \E c \in Channels, h \in Handlers :
       /\ "registerHandler" \in schema.members
       /\ Len(regs) < MaxAttachRegs
       /\ registerHandler(c, h)
  \/ \E id \in 1..Len(regs) : cleanup(id)
  \/ \E d \in Dispatchers :
       /\ schema.state = "built"
       /\ ~IsEmptyMap(config.handlers)
       /\ ipcMainInstance = Null
       /\ registerMainHandlers(d)
  \/ \E d \in Dispatchers : registerMainHandlersNoop(d)

SpecLegacy == LegacyInit /\ [][LegacyNext]_vars

\* the WindowManager alone
SpecWindows == Init /\ [][WindowNext]_vars

\* the PortManager alone, its calls made one after the other
SpecPorts == Init /\ [][PortNext]_vars

\* the PortManager alone, its calls interleaving at their awaits
SpecPortsConcurrent == Init /\ [][PortConcurrentNext]_vars

\* the ZoomManager alone
SpecZoom == Init /\ [][ZoomNext]_vars

\* the hot-reload plugin alone
SpecHotReload == Init /\ [][HotNext]_vars

\* waitForServer alone; fetches settle, due timers fire and time passes
SpecWait ==
  /\ Init
  /\ [][WaitNext]_vars
  /\ \A i \in 1..MaxWaitCalls :
        /\ WF_vars(i <= Len(waitCalls) /\ \E outcome \in FetchOutcomes : fetchSettle(i, outcome))
        /\ WF_vars(i <= Len(waitCalls) /\ wake(i))
  /\ WF_vars(tick)

(***************************************************************************)
(* Vocabulary of the properties.                                           *)
(***************************************************************************)
Attached == ipcMainInstance # Null

\* the number of the latest registerHandler call for a channel, 0 if none
LatestReg(c) ==
  LET ids == {i \in 1..Len(regs) : regs[i].channel = c}
  IN IF ids = {} THEN 0 ELSE CHOOSE i \in ids : \A j \in ids : j <= i

\* the registration that is active for a channel under the documented
\* discipline: the latest one, unless its own unregister function was called
ActiveReg(c) ==
  LET i == LatestReg(c)
  IN IF i # 0 /\ ~regs[i].called THEN i ELSE 0

\* this step is the call of the unregister function of registration id
IsCleanupStep(id) == last'.op = "cleanup" /\ last'.id = id /\ vars' # vars

\* this step is the arrival of call i at its IpcMain
IsDispatchStep(i) ==
  /\ i \in 1..Len(calls)
  /\ calls[i].status = "sent"
  /\ calls'[i].status # "sent"

\* the invoke messages an IpcMain received for call i
ReceivedFor(d, i) == SelectSeq(received[d], LAMBDA m : m.call = i)

(***************************************************************************)
(* C1: once a dispatcher is attached, every handler in the registry is     *)
(* bound on that dispatcher under its channel name, whether it was         *)
(* registered before the attach or by a later registerHandler call.        *)
(***************************************************************************)
C1_AttachedBindsEveryRegistered ==
  Attached =>
    \A i \in 1..Len(registeredHandlers) :
      bound[ipcMainInstance][registeredHandlers[i].channel]
        = registeredHandlers[i].handler

(***************************************************************************)
(* C2: calling an unregister function a second time, or after a newer      *)
(* registerHandler call for its channel, leaves the newer binding alone:   *)
(* the registry entry of the channel and every dispatcher table are        *)
(* unchanged by the call.                                                  *)
(***************************************************************************)
C2_StaleUnregisterIsNoOp ==
  [][\A id \in 1..Len(regs) :
       (/\ IsCleanupStep(id)
        /\ ActiveReg(regs[id].channel) \notin {0, id})
       => /\ ObjGet(registeredHandlers', regs[id].channel)
               = ObjGet(registeredHandlers, regs[id].channel)
          /\ bound' = bound]_vars

(***************************************************************************)
(* C3: a channel has at most one active implementation: right after        *)
(* registerHandler(c, h) the registry holds exactly one entry for c, that  *)
(* entry is h, and the attached dispatcher (if any) dispatches c to h.     *)
(***************************************************************************)
C3_LaterRegistrationSupersedes ==
  last.op = "registerHandler" =>
    LET r == regs[last.id]
    IN /\ Cardinality({i \in 1..Len(registeredHandlers) :
                         registeredHandlers[i].channel = r.channel}) = 1
       /\ ObjGet(registeredHandlers, r.channel) = r.handler
       /\ Attached => bound[ipcMainInstance][r.channel] = r.handler

(***************************************************************************)
(* C4: registerHandler never fails: every call returns its unregister      *)
(* function, in every registry state.                                      *)
(***************************************************************************)
C4_RegisterHandlerNeverThrows ==
  \A i \in 1..Len(regs) : regs[i].returned

(***************************************************************************)
(* C5: the first attach, after any interleaving of registerHandler and     *)
(* unregister calls, binds for every channel exactly the implementation of *)
(* its active registration, and nothing when the channel has none.         *)
(***************************************************************************)
C5_FirstAttachBindsActive ==
  [][(ipcMainInstance = Null /\ ipcMainInstance' # Null)
       => \A c \in Channels :
            bound'[ipcMainInstance'][c] =
              IF ActiveReg(c) # 0 THEN regs[ActiveReg(c)].handler ELSE None]_vars

(***************************************************************************)
(* C6: the attachment changes by detach-then-attach, so no channel is ever *)
(* bound on a dispatcher other than the attached one, and every bound      *)
(* channel is a registered one.                                            *)
(***************************************************************************)
C6_NoOrphanedBindings ==
  \A d \in Dispatchers : \A c \in Channels :
    bound[d][c] # None => (d = ipcMainInstance /\ ObjHas(registeredHandlers, c))

(***************************************************************************)
(* C7: the unregister function of the active registration returns          *)
(* normally, removes the channel (and only it) from the registry, removes  *)
(* the channel's handler (and only it) from the attached dispatcher, and   *)
(* changes no dispatcher table when no dispatcher is attached.             *)
(***************************************************************************)
C7_UnregisterActive ==
  [][\A id \in 1..Len(regs) :
       (IsCleanupStep(id) /\ ActiveReg(regs[id].channel) = id)
       => LET c == regs[id].channel
          IN /\ ~last'.threw
             /\ ~ObjHas(registeredHandlers', c)
             /\ \A c2 \in Channels \ {c} :
                  ObjGet(registeredHandlers', c2) = ObjGet(registeredHandlers, c2)
             /\ ipcMainInstance' = ipcMainInstance
             /\ IF Attached
                  THEN /\ bound'[ipcMainInstance][c] = None
                       /\ \A d \in Dispatchers : \A c2 \in Channels :
                            (d # ipcMainInstance \/ c2 # c)
                              => bound'[d][c2] = bound[d][c2]
                  ELSE bound' = bound]_vars

\* the latest registration of a bound channel was just unregistered while attached
C7_Witness ==
  /\ last.op = "cleanup"
  /\ LatestReg(regs[last.id].channel) = last.id
  /\ Attached
  /\ ~ObjHas(registeredHandlers, regs[last.id].channel)
  /\ bound[ipcMainInstance][regs[last.id].channel] = None
  /\ \E c \in Channels : bound[ipcMainInstance][c] # None

(***************************************************************************)
(* C8: a call that arrives at the host while its channel has no entry in   *)
(* the registry is rejected with the error that names the channel; it is   *)
(* never handed to an implementation.                                      *)
(***************************************************************************)
C8_UnregisteredChannelRejects ==
  [][\A i \in 1..Len(calls) :
       (IsDispatchStep(i) /\ ~ObjHas(registeredHandlers, calls[i].wire))
       => /\ calls'[i].status = "rejected"
          /\ calls'[i].value = NoHandlerError(calls[i].wire)]_vars

(***************************************************************************)
(* C9: round trip.  With 'get-user' registered as h by a call that         *)
(* returned and dispatcher d attached by a call that returned, a client    *)
(* call getUser(a) through an object exposed over d reaches d exactly once,*)
(* on channel 'get-user' with argument a, runs h, and resolves with        *)
(* exactly the value h returns for a.                                      *)
(***************************************************************************)
RoundTripReady(d, h) ==
  /\ ipcMainInstance = d
  /\ ~attachThrew
  /\ LatestReg(GetUser) # 0
  /\ regs[LatestReg(GetUser)].returned
  /\ ObjGet(registeredHandlers, GetUser) = h
  /\ h # None

C9_RoundTrip ==
  /\ [](\A i \in 1..Len(calls) :
          /\ (calls[i].callable = callableOf[GetUser] /\ calls[i].status # "threw")
               => calls[i].wire = GetUser
          /\ \A d \in Dispatchers :
               Len(ReceivedFor(d, i)) =
                 IF calls[i].status \in {"sent", "threw"} \/ d # calls[i].disp
                   THEN 0 ELSE 1
          /\ calls[i].status = "resolved"
               => calls[i].value = Ret(calls[i].handler, calls[i].arg))
  /\ [][\A i \in 1..Len(calls) : \A h \in Handlers :
          (/\ IsDispatchStep(i)
           /\ calls[i].callable = callableOf[GetUser]
           /\ RoundTripReady(calls[i].disp, h))
          => /\ calls'[i].status = "running"
             /\ calls'[i].handler = h
             /\ received'[calls[i].disp] =
                  Append(received[calls[i].disp],
                         [channel |-> GetUser, arg |-> calls[i].arg, call |-> i])]_vars

\* a getUser call made in the round-trip situation has resolved
C9_Witness ==
  \E i \in 1..Len(calls) :
    /\ calls[i].callable = callableOf[GetUser]
    /\ calls[i].status = "resolved"
    /\ RoundTripReady(calls[i].disp, calls[i].handler)
    /\ calls[i].arg = <<"u1", "u2">>
    /\ calls[i].value = Ret(ObjGet(registeredHandlers, GetUser), <<"u1", "u2">>)
    /\ Len(ReceivedFor(calls[i].disp, i)) = 1

(***************************************************************************)
(* C10: while no object is installed under the bridge key, every invoker   *)
(* of the invoke object fails at once with the configuration error: the    *)
(* call is never pending, never yields a value, and no message reaches any *)
(* dispatcher for it.                                                      *)
(***************************************************************************)
C10_NotInstalledFails ==
  /\ [][\A n \in 1..MaxCalls :
          (Len(calls) = n - 1 /\ Len(calls') = n /\ getIpcApi(apiKey) = Null)
          => /\ calls'[n].status = "threw"
             /\ calls'[n].value = ConfigError
             /\ calls'[n].wire = None
             /\ received' = received]_vars
  /\ [](\A i \in 1..Len(calls) : \A d \in Dispatchers :
          calls[i].wire = None
            => calls[i].status = "threw" /\ Len(ReceivedFor(d, i)) = 0)

\* a call was made before anything was installed under the bridge key
C10_Witness ==
  /\ getIpcApi(apiKey) = Null
  /\ \E i \in 1..Len(calls) : calls[i].status = "threw" /\ calls[i].value = ConfigError

(***************************************************************************)
(* C11: every error of a client call made through the invoke object,       *)
(* the bridge object not being installed included, surfaces as a rejected  *)
(* result: no call ends by throwing synchronously at the caller.           *)
(***************************************************************************)
C11_InvocationErrorsAreRejections ==
  \A i \in 1..Len(calls) :
    /\ calls[i].status # "threw"
    /\ calls[i].value = ConfigError => calls[i].status = "rejected"

(***************************************************************************)
(* C12: when the bridge object is resolved, the invoker calls the member   *)
(* of that object that has the invoker's own name, with all arguments in   *)
(* the same order and unchanged, and the value the call ends with is the   *)
(* member's result: what the implementation returned for those arguments,  *)
(* or the error the member rejected with.                                  *)
(***************************************************************************)
C12_ForwardsUnchanged ==
  /\ [][\A n \in 1..MaxCalls :
          (Len(calls) = n - 1 /\ Len(calls') = n /\ getIpcApi(apiKey) # Null)
          => /\ calls'[n].status = "sent"
             /\ calls'[n].disp = getIpcApi(apiKey)
             /\ calls'[n].member = calls'[n].callable
             /\ calls'[n].data = calls'[n].arg]_vars
  /\ [](\A i \in 1..Len(calls) :
          /\ calls[i].status = "resolved"
               => calls[i].value = Ret(calls[i].handler, calls[i].arg)
          /\ calls[i].status = "rejected"
               => calls[i].value \in {NoHandlerError(calls[i].wire),
                                      ImplError(calls[i].handler)}
          /\ \A d \in Dispatchers : \A k \in 1..Len(ReceivedFor(d, i)) :
               ReceivedFor(d, i)[k].arg = calls[i].arg)

\* a forwarded call resolved with the implementation's result for its arguments
C12_Witness ==
  \E i \in 1..Len(calls) :
    /\ calls[i].status = "resolved"
    /\ calls[i].member = calls[i].callable
    /\ calls[i].arg = <<"u1", "u2">>
    /\ calls[i].data = calls[i].arg
    /\ calls[i].value = Ret(calls[i].handler, calls[i].arg)

(***************************************************************************)
(* C13: the function bound on a dispatcher for a channel is an             *)
(* implementation that was registered for that channel, itself and not a   *)
(* wrapper; the settlement of an invocation is the implementation's own    *)
(* result or rejection, and it is not followed by another invocation of    *)
(* the implementation for the same call.                                   *)
(***************************************************************************)
C13_BoundIsImplementation ==
  /\ [](\A d \in Dispatchers : \A c \in Channels :
          bound[d][c] # None
            => \E i \in 1..Len(regs) :
                 regs[i].channel = c /\ regs[i].handler = bound[d][c])
  /\ [](\A i \in 1..Len(calls) :
          /\ calls[i].status = "rejected" /\ calls[i].handler # None
               => /\ calls[i].handler \in Handlers
                  /\ calls[i].value = ImplError(calls[i].handler)
          /\ \A d \in Dispatchers : Len(ReceivedFor(d, i)) <= 1)
  /\ [][\A i \in 1..Len(calls) :
          calls[i].status = "running" /\ calls'[i].status # "running"
            => received' = received /\ bound' = bound]_vars

\* an invocation reached a registered implementation, which rejected it
C13_Witness ==
  \E i \in 1..Len(calls) : \E r \in 1..Len(regs) :
    /\ calls[i].status = "rejected"
    /\ calls[i].handler = regs[r].handler
    /\ calls[i].wire = regs[r].channel
    /\ calls[i].value = ImplError(regs[r].handler)

(***************************************************************************)
(* C14: createIpcSchema called with a configuration whose handlers and     *)
(* events are both left out or empty throws 'At least one of handlers or   *)
(* events must be provided': no result object exists, so nothing is ever   *)
(* registered, attached or exposed through it.                             *)
(***************************************************************************)
C14_EmptySchemaFails ==
  (/\ schema.state # "none"
   /\ Len(config.handlers.keys) = 0
   /\ Len(config.events.keys) = 0)
  => /\ schema.state = "threw"
     /\ schema.error = NoSchemaError
     /\ schema.members = {}
     /\ schema.invoke = <<>>
     /\ ~exposedApi.exposed
     /\ regs = <<>>
     /\ ~Attached

\* createIpcSchema was called with an empty handlers object and no events
C14_Witness ==
  /\ config = [handlers |-> Map(<<>>), events |-> Absent]
  /\ schema.state = "threw"
  /\ schema.error = NoSchemaError

(***************************************************************************)
(* C15: a schema whose declared call channels include two distinct names   *)
(* with the same callable name is not built: construction fails, so every  *)
(* built schema has pairwise distinct callable names.                      *)
(***************************************************************************)
C15_CollidingNamesRejected ==
  schema.state = "built"
    => \A i, j \in 1..Len(config.handlers.keys) :
         i # j => camelCase(config.handlers.keys[i])
                    # camelCase(config.handlers.keys[j])

(***************************************************************************)
(* C16: the callable names of the invoke object are the transforms of the  *)
(* declared call channels, whatever is registered, and no step after       *)
(* construction (registerHandler, unregister, registerMainHandlers,        *)
(* exposeInPreload) changes the invoke object.                             *)
(***************************************************************************)
C16_CallableNamesFixed ==
  /\ [](HasHandlersApi
          => PropKeys(schema.invoke) = {camelCase(c) : c \in DeclaredCalls})
  /\ [][schema.state = "built" => schema' = schema /\ config' = config]_vars

\* a handler was registered and unregistered and a dispatcher attached on a
\* schema declaring 'get-user' and 'save-data'
C16_Witness ==
  /\ HasHandlersApi
  /\ config.handlers = Map(handlers)
  /\ Attached
  /\ \E i \in 1..Len(regs) : regs[i].called
  /\ PropKeys(schema.invoke) = {camelCase(GetUser), camelCase(SaveData)}
  /\ Cardinality(PropKeys(schema.invoke)) = 2

(***************************************************************************)
(* C17: the object exposeInPreload returns has, for every declared call    *)
(* channel, a call wrapper under the channel's callable name and a wrapper *)
(* of that name under its invoke namespace, and the two are one closure.   *)
(***************************************************************************)
C17_BothViewsHoldEveryWrapper ==
  exposedApi.exposed
    => \A c \in DeclaredCalls :
         LET direct == PropGet(exposedApi.api, camelCase(c))
             nested == PropGet(PropGet(exposedApi.api, InvokeKey).members,
                               camelCase(c))
         IN /\ direct.kind = "invoker"
            /\ nested.kind = "invoker"
            /\ direct = nested

\* the subscriptions of an event channel whose unsubscribe handle was never
\* invoked, in subscription order
ActiveSubs(ch) ==
  SelectSeq([i \in 1..Len(subs) |-> i],
            LAMBDA i : subs[i].channel = ch /\ subs[i].handleCalls = 0)

\* the callback invocations made for emission n, in invocation order
FiredFor(n) == SelectSeq(fired, LAMBDA f : f.emit = n)

\* this step is the arrival of an event message
IsDeliverStep == Len(inbox') < Len(inbox)

\* this step is an invocation of the unsubscribe handle of subscription id
IsUnsubscribeStep(id) ==
  /\ id \in 1..Len(subs)
  /\ Len(subs') = Len(subs)
  /\ subs'[id].handleCalls = subs[id].handleCalls + 1

(***************************************************************************)
(* C18: the arrival of one emission on an event channel invokes, exactly   *)
(* once each and in subscription order, the callbacks of the subscriptions *)
(* of that channel that were not removed through their unsubscribe handle: *)
(* all N of them, and N-1 once one of them was removed.                    *)
(***************************************************************************)
C18_FanOutInSubscriptionOrder ==
  [][IsDeliverStep
       => LET m == Head(inbox)
              act == ActiveSubs(m.channel)
          IN fired' = fired \o
               [k \in 1..Len(act) |->
                  [emit |-> m.n, sub |-> act[k],
                   callback |-> subs[act[k]].callback, args |-> m.args]]]_vars

\* two listeners were invoked in order by a first emission, the first was
\* removed, and a second emission invoked the other one only
C18_Witness ==
  /\ Len(subs) = 2
  /\ [k \in 1..Len(FiredFor(1)) |-> FiredFor(1)[k].sub] = <<1, 2>>
  /\ subs[1].handleCalls = 1
  /\ subs[2].handleCalls = 0
  /\ [k \in 1..Len(FiredFor(2)) |-> FiredFor(2)[k].sub] = <<2>>

(***************************************************************************)
(* C19: invoking the unsubscribe handle of a subscription removes that     *)
(* subscription's entry and leaves every other entry of every channel in   *)
(* place, entries holding the same callback included; invoking it again    *)
(* changes nothing; so the listeners of a channel are always exactly the   *)
(* subscriptions whose own handle was never invoked.                       *)
(***************************************************************************)
C19_UnsubscribeRemovesOnlyItsOwn ==
  /\ [][\A id \in 1..Len(subs) :
          IsUnsubscribeStep(id)
            => /\ listeners' =
                    [ch \in EventChannels |->
                       SelectSeq(listeners[ch], LAMBDA e : e.id # id)]
               /\ subs[id].handleCalls > 0 => listeners' = listeners]_vars
  /\ [](\A ch \in EventChannels :
          [k \in 1..Len(listeners[ch]) |-> listeners[ch][k].id] = ActiveSubs(ch))

\* two subscriptions hold the same callback; the handle of the first was
\* invoked twice and the second is still subscribed
C19_Witness ==
  \E i, j \in 1..Len(subs) :
    /\ i < j
    /\ subs[i].channel = subs[j].channel
    /\ subs[i].callback = subs[j].callback
    /\ subs[i].handleCalls = 2
    /\ subs[j].handleCalls = 0
    /\ \E k \in 1..Len(listeners[subs[j].channel]) :
         listeners[subs[j].channel][k].id = j

(***************************************************************************)
(* C20: invocations are handled independently of one another.  Whatever    *)
(* the other calls are doing, a call whose message is sent can be          *)
(* dispatched and a call whose implementation is running can complete; a   *)
(* step of one call changes no other call; and a call that resolved holds  *)
(* what the implementation bound to its own channel returned for its own   *)
(* arguments.                                                              *)
(***************************************************************************)
C20_InFlightIndependent ==
  /\ [](\A i \in 1..Len(calls) :
          /\ calls[i].status = "sent" => ENABLED ipcMainDispatch(i)
          /\ calls[i].status = "running"
               => ENABLED handlerSettle(i, TRUE) /\ ENABLED handlerSettle(i, FALSE)
          /\ calls[i].status = "resolved"
               => calls[i].value = Ret(bound[calls[i].disp][calls[i].wire],
                                       calls[i].arg))
  /\ [][\A i \in 1..Len(calls) :
          calls'[i] # calls[i]
            => \A j \in 1..Len(calls) : j # i => calls'[j] = calls[j]]_vars

\* the second of two calls of the same channel resolved with its own result
\* while the first, made with other arguments, is still running
C20_Witness ==
  /\ Len(calls) = 2
  /\ calls[1].wire = calls[2].wire
  /\ calls[1].arg # calls[2].arg
  /\ calls[1].status = "running"
  /\ calls[2].status = "resolved"
  /\ calls[2].value = Ret("h1", calls[2].arg)

IsAttachStep(d) ==
  /\ last'.op = "registerMainHandlers"
  /\ ipcMainInstance' = d
  /\ regs' = regs
  /\ registeredHandlers' = registeredHandlers

\* the channels that have an active registration, in the order in which
\* those registrations were made
ActiveOrder ==
  LET ids == SelectSeq([i \in 1..Len(regs) |-> i],
                       LAMBDA i : ActiveReg(regs[i].channel) = i)
  IN [k \in 1..Len(ids) |-> regs[ids[k]].channel]

(***************************************************************************)
(* C22: the handle calls a dispatcher receives from registerMainHandlers   *)
(* list the channels that have an active implementation, in the order in   *)
(* which those implementations were registered.  Stated for the attach     *)
(* calls made while no unregister function has been called, so that every  *)
(* registered channel has its latest registration as active                *)
(* implementation.                                                         *)
(***************************************************************************)
C22_AttachBindsInRegistrationOrder ==
  [][\A d \in Dispatchers :
       (IsAttachStep(d) /\ \A i \in 1..Len(regs) : ~regs[i].called)
         => HandleCalls(registeredHandlers, bound[d]) = ActiveOrder]_vars

(***************************************************************************)
(* C23: registerMainHandlers called with nothing or with an object that is *)
(* no IpcMain throws at the call site, whatever the registry holds, and    *)
(* the registry does not keep the object as its dispatcher.                *)
(***************************************************************************)
C23_InvalidHandleAttachThrows ==
  [][\A h \in InvalidHandles :
       IsAttachStep(h)
         => /\ last'.threw
            /\ ipcMainInstance' \in {Null, Undefined}]_vars

\* the step is a call of openWindow: the call record it appends
IsOpenWindowCall == Len(ops') = Len(ops) + 1 /\ ops'[Len(ops')].kind = "openWindow"

\* the window registered under the name and not destroyed, or NoWindow
LiveWindow(windowName) ==
  IF windowRegistry[windowName] # NoWindow /\ ~windows[windowRegistry[windowName]].destroyed
    THEN windowRegistry[windowName]
    ELSE NoWindow

\* call o of openWindow resolves in this step
OpenWindowResolves(o) ==
  /\ ops[o].kind = "openWindow"
  /\ ops[o].status = "pending"
  /\ ops'[o].status = "resolved"

(***************************************************************************)
(* C24: an openWindow call made while a window that is not destroyed is    *)
(* registered under the name resolves to that window and constructs no     *)
(* BrowserWindow; a call made otherwise, for a configured name, constructs *)
(* one and registers it; whenever an openWindow call resolves, the window  *)
(* it resolves to has just been shown and focused.                         *)
(***************************************************************************)
C24_OpenWindowReusesOrCreates ==
  /\ [][IsOpenWindowCall => ops'[Len(ops')].found = LiveWindow(ops'[Len(ops')].name)]_vars
  /\ [][\A o \in 1..Len(ops) :
          (ops[o].kind = "openWindow" /\ ops[o].pc = "afterGet" /\ ops'[o].pc # "afterGet")
            => IF ops[o].found # NoWindow
                 THEN /\ Len(windows') = Len(windows)
                      /\ ops'[o].status = "resolved"
                      /\ ops'[o].result = ops[o].found
               ELSE ops[o].name \in DOMAIN windowConfigs
                      => /\ Len(windows') = Len(windows) + 1
                         /\ ops'[o].win = Len(windows')
                         /\ windows'[ops'[o].win].name = ops[o].name
                         /\ windowRegistry'[ops[o].name] = ops'[o].win]_vars
  /\ [][\A o \in 1..Len(ops) :
          OpenWindowResolves(o)
            => /\ ops'[o].result \in {ops[o].found, ops[o].win} \ {NoWindow}
               /\ windows'[ops'[o].result].shown
               /\ windows'[ops'[o].result].focused
               /\ ~windows'[ops'[o].result].destroyed]_vars

\* one openWindow call created the window and a later one found it
C24_Witness ==
  \E o1, o2 \in 1..Len(ops) :
    /\ ops[o1].kind = "openWindow" /\ ops[o1].status = "resolved"
    /\ ops[o1].win # NoWindow /\ ops[o1].result = ops[o1].win
    /\ ops[o2].kind = "openWindow" /\ ops[o2].status = "resolved"
    /\ ops[o2].found = ops[o1].win /\ ops[o2].result = ops[o1].win
    /\ Len(windows) = 1

\* the four layers merged lowest priority first: toolkit base options, the
\* manager's defaultWindowOptions, the options of the window's configuration
\* entry, the options of the call
LayeredOptions(windowName, options) ==
  merge(merge(merge(baseOptions, defaultWindowOptions),
              windowConfigs[windowName].options),
        options)

(***************************************************************************)
(* C25: the options a window is constructed with are the merge of the base *)
(* options, defaultWindowOptions, the configuration entry's options and    *)
(* the options of the call, so that for every key the layer of highest     *)
(* priority that sets it decides the value given to BrowserWindow.         *)
(***************************************************************************)
C25_OptionsMergeFourLayers ==
  \A o \in 1..Len(ops) :
    ops[o].win # NoWindow
      => windows[ops[o].win].options = LayeredOptions(ops[o].name, ops[o].options)

\* the step is a call of getWindow: the call record it appends
IsGetWindowCall == Len(ops') = Len(ops) + 1 /\ ops'[Len(ops')].kind = "getWindow"

(***************************************************************************)
(* C26: getWindow(name) returns the window registered under the name when  *)
(* that window is not destroyed and leaves the registry as it is; when the *)
(* registered window is destroyed it returns undefined and removes that    *)
(* entry only; for a name without entry it returns undefined and changes   *)
(* nothing.                                                                *)
(***************************************************************************)
C26_GetWindowReturnsLiveWindow ==
  [][IsGetWindowCall =>
       LET call == ops'[Len(ops')]
           registeredWindow == windowRegistry[call.name]
       IN /\ call.status = "resolved"
          /\ windows' = windows
          /\ IF registeredWindow = NoWindow
                THEN call.result = NoWindow /\ windowRegistry' = windowRegistry
              ELSE IF windows[registeredWindow].destroyed
                THEN /\ call.result = NoWindow
                     /\ windowRegistry' = [windowRegistry EXCEPT ![call.name] = NoWindow]
              ELSE call.result = registeredWindow /\ windowRegistry' = windowRegistry]_vars

\* getWindow found the entry of a destroyed window, whose 'closed' event has
\* not been delivered, and removed it
C26_Witness ==
  \E o \in 1..Len(ops) : \E w \in 1..Len(windows) :
    /\ ops[o].kind = "getWindow"
    /\ ops[o].result = NoWindow
    /\ windows[w].name = ops[o].name
    /\ windows[w].destroyed
    /\ ~windows[w].closedEmitted
    /\ windowRegistry[ops[o].name] = NoWindow

\* call c, which hands out a port, returns in this step
PortReturned(c) ==
  /\ portCalls[c].kind \in {"findAvailablePort", "getRandomAvailablePort"}
  /\ portCalls[c].status = "pending"
  /\ portCalls'[c].status = "resolved"

(***************************************************************************)
(* C27: with the calls made one after the other, a port returned by        *)
(* findAvailablePort or getRandomAvailablePort is not allocated when the   *)
(* call returns it and is in the allocated set once it has returned.       *)
(***************************************************************************)
C27_ReturnedPortIsFreshlyAllocated ==
  [][\A c \in 1..Len(portCalls) :
       PortReturned(c)
         => /\ portCalls'[c].result \notin usedPorts
            /\ portCalls'[c].result \in usedPorts'
            /\ usedPorts' = usedPorts \cup {portCalls'[c].result}]_vars

\* two calls with the same start port returned two different ports
C27_Witness ==
  /\ Len(portCalls) = 2
  /\ \A c \in 1..2 :
        /\ portCalls[c].kind = "findAvailablePort"
        /\ portCalls[c].startPort = basePort
        /\ portCalls[c].status = "resolved"
  /\ portCalls[1].result = basePort
  /\ portCalls[2].result = basePort + 1
  /\ usedPorts = {basePort, basePort + 1}

\* the ports at or above startPort that the property looks at: the ports one
\* call can examine and the port after them
PortsFrom(startPort) == startPort..(startPort + maxAttempts)

\* the ports at or above startPort that are not allocated and on which
\* isPortAvailable answers true
FreePorts(startPort) ==
  {q \in PortsFrom(startPort) : q \notin usedPorts /\ isPortAvailable(q)}

Min(S) == CHOOSE m \in S : \A q \in S : m <= q

\* call c of findAvailablePort settles in this step
FindSettles(c) ==
  /\ portCalls[c].kind = "findAvailablePort"
  /\ portCalls[c].status = "pending"
  /\ portCalls'[c].status # "pending"

(***************************************************************************)
(* C28: whenever some port at or above startPort is neither allocated nor  *)
(* unavailable, findAvailablePort(startPort) returns the smallest such     *)
(* port.                                                                   *)
(***************************************************************************)
C28_FindReturnsSmallestFreePort ==
  [][\A c \in 1..Len(portCalls) :
       (FindSettles(c) /\ FreePorts(portCalls[c].startPort) # {})
         => /\ portCalls'[c].status = "resolved"
            /\ portCalls'[c].result = Min(FreePorts(portCalls[c].startPort))]_vars

(***************************************************************************)
(* C29: a findAvailablePort call examines consecutive candidates from      *)
(* startPort on and never more than 100 of them; when none of the examined *)
(* ports is available it rejects with 'Unable to find an available port    *)
(* after 100 attempts' and the allocated set is what it was at the call.   *)
(***************************************************************************)
C29_FindRejectsAfterMaxAttempts ==
  /\ [](\A c \in 1..Len(portCalls) :
          portCalls[c].kind = "findAvailablePort"
            => /\ portCalls[c].currentPort = portCalls[c].startPort + portCalls[c].attempts
               /\ portCalls[c].attempts <= 100
               /\ portCalls[c].pc = "probing" => portCalls[c].attempts < 100)
  /\ [][\A c \in 1..Len(portCalls) :
          (FindSettles(c) /\ portCalls'[c].status = "rejected")
            => /\ portCalls'[c].error = "Unable to find an available port after 100 attempts"
               /\ portCalls'[c].attempts = 100
               /\ portCalls'[c].result = NoPort
               /\ usedPorts' = portCalls[c].usedAtCall
               /\ \A q \in Window(portCalls[c].startPort) :
                     q \in usedPorts \/ ~isPortAvailable(q)]_vars
  /\ [][\A c \in 1..Len(portCalls) :
          (FindSettles(c) /\ \A q \in Window(portCalls[c].startPort) :
                               q \in usedPorts \/ ~isPortAvailable(q))
            => portCalls'[c].status = "rejected"]_vars

\* a call rejected after it skipped an allocated port and probed the others
C29_Witness ==
  /\ Len(portCalls) = 2
  /\ portCalls[1].kind = "findAvailablePort" /\ portCalls[1].result = basePort
  /\ portCalls[2].kind = "findAvailablePort" /\ portCalls[2].startPort = basePort
  /\ portCalls[2].status = "rejected"
  /\ portCalls[2].error = FindError
  /\ usedPorts = {basePort}

(***************************************************************************)
(* C30: a waitForServer call resolves only in the step in which one of its *)
(* fetches answers ok; after a fetch that answers not-ok or rejects it     *)
(* waits the check interval and then fetches again, unless the timeout has *)
(* elapsed; a call rejects only once the timeout has elapsed, with 'Server *)
(* at <url> did not become ready within <timeout>ms'; and every call       *)
(* settles.                                                                *)
(***************************************************************************)
C30_WaitForServerSettles ==
  /\ [][\A i \in 1..Len(waitCalls) :
          (waitCalls[i].status = "pending" /\ waitCalls'[i].status = "resolved")
            => /\ waitCalls[i].pc = "fetching"
               /\ waitCalls'[i].lastFetch = "ok"
               /\ waitCalls'[i].fetches = waitCalls[i].fetches + 1]_vars
  /\ [][\A i \in 1..Len(waitCalls) :
          (waitCalls[i].pc = "fetching" /\ waitCalls'[i].pc # "fetching"
             /\ waitCalls'[i].lastFetch # "ok")
            => waitCalls'[i].pc = "sleeping" /\ waitCalls'[i].since = now]_vars
  /\ [][\A i \in 1..Len(waitCalls) :
          (waitCalls[i].pc = "sleeping" /\ waitCalls'[i].pc # "sleeping")
            => /\ now >= waitCalls[i].since + SERVER_CHECK_INTERVAL
               /\ IF now - waitCalls[i].start < waitCalls[i].timeout
                     THEN waitCalls'[i].pc = "fetching"
                     ELSE waitCalls'[i].status = "rejected"]_vars
  /\ [](\A i \in 1..Len(waitCalls) :
          waitCalls[i].status = "rejected"
            => /\ now - waitCalls[i].start >= waitCalls[i].timeout
               /\ waitCalls[i].error =
                    "Server at " \o waitCalls[i].url \o " did not become ready within "
                      \o ToString(waitCalls[i].timeout) \o "ms"
               /\ waitCalls[i].timeout = 100
                    => waitCalls[i].error =
                         "Server at http://localhost:5173 did not become ready within 100ms")
  /\ \A i \in 1..MaxWaitCalls :
       (Len(waitCalls) >= i) ~> (Len(waitCalls) >= i /\ waitCalls[i].status # "pending")

\* a call resolved by its second fetch, after one check interval of waiting
C30_Witness ==
  \E i \in 1..Len(waitCalls) :
    /\ waitCalls[i].status = "resolved"
    /\ waitCalls[i].fetches = 2
    /\ waitCalls[i].lastFetch = "ok"
    /\ now >= waitCalls[i].start + SERVER_CHECK_INTERVAL

\* the step is a ZoomManager call of the given kind
IsZoomCall(op) == zoomLast'.calls = zoomLast.calls + 1 /\ zoomLast'.op = op

(***************************************************************************)
(* C31: every zoom factor that zoomIn or zoomOut applies to the focused    *)
(* window lies within [minZoom, maxZoom], whatever zoom factor the window  *)
(* had before the call.                                                    *)
(***************************************************************************)
C31_ZoomStepsStayWithinLimits ==
  [][((IsZoomCall("zoomIn") \/ IsZoomCall("zoomOut")) /\ zoomLast'.applied)
       => /\ MIN_ZOOM <= zoomFactor'[zoomLast'.window]
          /\ zoomFactor'[zoomLast'.window] <= MAX_ZOOM]_vars

(***************************************************************************)
(* C32: a setWindowZoom call saves a factor to a state manager only when   *)
(* it applied the factor to the window; a call on a destroyed window, a    *)
(* call whose setZoomFactor throws and a call on a window that was never   *)
(* registered leave every saved zoom state as it was.                      *)
(***************************************************************************)
C32_ZoomSavedOnlyAfterApplied ==
  [][\A w \in ZoomWindows :
       (IsZoomCall("setWindowZoom") /\ zoomLast'.window = w)
         => /\ zoomLast'.saved => zoomLast'.applied
            /\ (\/ w \in zoomDestroyed
                \/ SetZoomFactorThrows(zoomLast'.factor)
                \/ windowToNameMap[w] = NoName)
                 => ~zoomLast'.saved /\ zoomState' = zoomState]_vars

\* the channel names the schema of the host declares
Declared == {FixedConfig.handlers.keys[i] : i \in 1..Len(FixedConfig.handlers.keys)}

\* the step is a registerHandler call for channel c
IsRegisterStep(c) ==
  /\ last'.op = "registerHandler"
  /\ Len(regs') = Len(regs) + 1
  /\ regs'[Len(regs')].channel = c

(***************************************************************************)
(* C33: a registerHandler call for a channel name the schema does not      *)
(* declare throws at the call site, stores nothing in the registry and     *)
(* binds nothing on a dispatcher.                                          *)
(***************************************************************************)
C33_UndeclaredChannelRejected ==
  [][\A c \in ChannelNames \ Declared :
       IsRegisterStep(c)
         => /\ ~regs'[Len(regs')].returned
            /\ registeredHandlers' = registeredHandlers
            /\ bound' = bound]_vars

(***************************************************************************)
(* C34: with a single attached dispatcher, which refuses a second bind of  *)
(* a bound channel, the channels bound on the dispatcher are the channels  *)
(* the registry holds an implementation for, and every channel is bound to *)
(* the implementation the registry holds for it.                           *)
(***************************************************************************)
C34_RegistryAndDispatcherAgree ==
  ipcMainInstance \in Dispatchers
    => \A c \in Channels :
         /\ (bound[ipcMainInstance][c] # None) = ObjHas(registeredHandlers, c)
         /\ bound[ipcMainInstance][c] = ObjGet(registeredHandlers, c)

(***************************************************************************)
(* C35: a registerMainHandlers call with the dispatcher that is already    *)
(* attached completes without an error and leaves every registered channel *)
(* bound on it, to the implementation the registry holds.                  *)
(***************************************************************************)
C35_ReattachIsIdempotent ==
  [][\A d \in Dispatchers :
       (IsAttachStep(d) /\ ipcMainInstance = d)
         => /\ ~last'.threw
            /\ \A c \in Channels :
                 ObjHas(registeredHandlers, c)
                   => bound'[d][c] = ObjGet(registeredHandlers, c)]_vars

\* the implementations a createIpcBridge configuration supplies, by channel
Supplied(cfg) ==
  {<<cfg.handlers.keys[i], cfg.handlers.impls[i]>> :
     i \in {j \in 1..Len(cfg.handlers.keys) : cfg.handlers.impls[j] \in Handlers}}

\* the registry holds the supplied implementations and nothing else
RegistryIsSupplied(reg, cfg) ==
  {<<reg[i].channel, reg[i].handler>> : i \in 1..Len(reg)} = Supplied(cfg)

(***************************************************************************)
(* C36: createIpcBridge registers every supplied implementation at         *)
(* construction, so that a single later registerMainHandlers(d) binds each *)
(* supplied channel on d to exactly its supplied implementation; for an    *)
(* events-only configuration the returned object has neither               *)
(* registerHandler nor invoke and its registerMainHandlers changes nothing.*)
(***************************************************************************)
C36_LegacyBridgeRegistersSupplied ==
  /\ [][(last'.op = "createIpcBridge" /\ schema'.state = "built")
         => /\ RegistryIsSupplied(registeredHandlers', config)
            /\ (IsEmptyMap(config.handlers) /\ ~IsEmptyMap(config.events))
                 => /\ schema'.members \cap {"registerHandler", "invoke"} = {}
                    /\ "registerMainHandlers" \in schema'.members]_vars
  /\ [][\A d \in Dispatchers :
          (IsAttachStep(d) /\ RegistryIsSupplied(registeredHandlers, config))
            => /\ ~last'.threw
               /\ \A c \in ChannelNames :
                    bound'[d][c] =
                      IF \E h \in Handlers : <<c, h>> \in Supplied(config)
                        THEN CHOOSE h \in Handlers : <<c, h>> \in Supplied(config)
                        ELSE None]_vars
  /\ [][(last'.op = "registerMainHandlers" /\ IsEmptyMap(config.handlers))
         => UNCHANGED <<registeredHandlers, ipcMainInstance, bound>>]_vars

\* two supplied implementations are bound on the dispatcher
C36_Witness ==
  /\ last.op = "registerMainHandlers"
  /\ regs = <<>>
  /\ ipcMainInstance \in Dispatchers
  /\ Cardinality(Supplied(config)) = 2
  /\ \A p \in Supplied(config) : bound[ipcMainInstance][p[1]] = p[2]

(***************************************************************************)
(* C37: with calls whose availability probes interleave, a port that       *)
(* findAvailablePort or getRandomAvailablePort returns is not allocated at *)
(* the moment the call returns it; no two calls are handed the same port.  *)
(***************************************************************************)
C37_InterleavedCallsGetDistinctPorts ==
  [][\A c \in 1..Len(portCalls) :
       PortReturned(c)
         => /\ portCalls'[c].result \notin usedPorts
            /\ \A o \in 1..Len(portCalls) :
                 (o # c /\ portCalls[o].status = "resolved"
                        /\ portCalls[o].kind # "releasePort"
                        /\ portCalls[o].result = portCalls'[c].result)
                   => \E r \in 1..Len(portCalls) :
                        /\ portCalls[r].kind = "releasePort"
                        /\ portCalls[r].startPort = portCalls'[c].result]_vars

\* openWindow call o constructs a BrowserWindow in this step
OpenWindowConstructs(o) ==
  /\ ops[o].kind = "openWindow"
  /\ ops[o].pc = "afterGet"
  /\ ops'[o].pc = "loading"
  /\ Len(windows') = Len(windows) + 1

(***************************************************************************)
(* C38: openWindow calls for one name that are in flight together          *)
(* construct at most one BrowserWindow: no call constructs a window while  *)
(* another call for that name has constructed one and has not completed.   *)
(***************************************************************************)
C38_ConcurrentOpenWindowConstructsOnce ==
  [][\A o \in 1..Len(ops) :
       OpenWindowConstructs(o)
         => \A p \in 1..Len(ops) :
              ~(/\ p # o
                /\ ops[p].kind = "openWindow"
                /\ ops[p].name = ops[o].name
                /\ ops[p].pc = "loading")]_vars

(***************************************************************************)
(* C39: every registry entry refers to a window that was created under     *)
(* that name and has not been closed, and the 'closed' event of a window   *)
(* removes the entry of its name only if the entry still refers to it.     *)
(***************************************************************************)
C39_RegistryEntryIsLiveAndOwnClosedOnly ==
  /\ [](\A n \in WindowNames :
          windowRegistry[n] # NoWindow
            => /\ windowRegistry[n] \in 1..Len(windows)
               /\ windows[windowRegistry[n]].name = n
               /\ ~windows[windowRegistry[n]].closedEmitted)
  /\ [][\A w \in 1..Len(windows) :
          (~windows[w].closedEmitted /\ windows'[w].closedEmitted
             /\ windowRegistry[windows[w].name] # w)
            => windowRegistry'[windows[w].name] = windowRegistry[windows[w].name]]_vars

\* writeBundle runs in this step
IsWriteBundle == bundles' = bundles + 1

\* child c exits in this step
ChildExits(c) == ~children[c].exited /\ children'[c].exited

(***************************************************************************)
(* C40: the hot-reload plugin keeps at most one spawned child: every child *)
(* but the current one has been killed with its exit listener removed, and *)
(* a writeBundle in development does that to the previous child and spawns *)
(* the next; a restart leaves the dev process running, the exit of a       *)
(* restarted child too, and the exit of the current child ends it.         *)
(***************************************************************************)
C40_HotReloadKeepsOneChild ==
  /\ [](\A c \in 1..Len(children) :
          IF c = electronApp
            THEN children[c].exitListener /\ ~children[c].killed
            ELSE ~children[c].exitListener /\ children[c].killed)
  /\ [][(IsWriteBundle /\ nodeEnv = "development")
         => /\ Len(children') = Len(children) + 1
            /\ electronApp' = Len(children')
            /\ children'[electronApp'] = Spawned
            /\ devExited' = devExited]_vars
  /\ [][(IsWriteBundle /\ nodeEnv # "development")
         => UNCHANGED <<electronApp, children, devExited>>]_vars
  /\ [][\A c \in 1..Len(children) :
          ChildExits(c) => devExited' = (c = electronApp)]_vars

\* a restarted child has exited, its successor is tracked and the dev
\* process runs
C40_Witness ==
  /\ ~devExited
  /\ electronApp = 2
  /\ children[1].exited /\ children[1].killed
  /\ ~children[2].exited

====
